---------------------------- MODULE Spec2Model ----------------------------
(***************************************************************************)
(* Model of the navigation agent of DynamicVLN                             *)
(* (VLN-DUET/map_nav_src_dyvln/r2r/agent.py) and of the edge-blocking      *)
(* synthesizer (Inpainting/block_edge.py).                                 *)
(*                                                                         *)
(* Three specifications share the module:                                 *)
(*   SpecArbiter  the four teacher-action functions applied to candidate   *)
(*                lists, masks and observations drawn from bounded sets;   *)
(*   Spec         one rollout of a batch: decision, action resolution,     *)
(*                search fallback, stop-viewpoint determination and new    *)
(*                observation, iterated until every lane has ended;        *)
(*   SpecSynth    one run of block_edge.py over the splits of a data set.  *)
(*                                                                         *)
(* Python indices are kept 0-based in every value the model stores         *)
(* (index 0 of a candidate list is the stop entry); TLA+ sequences are     *)
(* 1-based, so vpids[j + 1] is Python's vpids[j].                          *)
(***************************************************************************)
EXTENDS Integers, Sequences, FiniteSets, TLC

VARIABLES
    arb_in,      \* arguments shared by the teacher-action calls of one scenario
    arb_out,     \* the last teacher-action call: its remaining arguments and its result
    cfg,         \* self.args / self.feedback / train_ml of the rollout
    eps,         \* lane -> the episode the environment serves it
    sims,        \* self.env.env.sims: lane -> viewpoint, heading, elevation
    obs,         \* lane -> viewpoint of the observation the rollout holds
    gmaps,       \* lane -> GraphMap
    traj,        \* lane -> traj[i]['path']
    ended,       \* lane -> BOOLEAN
    just_ended,  \* lane -> BOOLEAN
    steps,       \* lane -> step counter
    base_t,      \* iteration counter of the rollout loop
    scanvp_cands,\* self.scanvp_cands: viewpoint -> (candidate -> pointId)
    nav,         \* lane -> nav_vpids, nav_targets, a_t, cpu_a_t of the iteration
    pc,          \* position in rollout
    lane,        \* lane whose action is being resolved (or that raised)
    srch,        \* frame of the running search_rollout
    args_nums,   \* args.nums of block_edge.py
    data,        \* split -> the items (path, path_id) of its annotation file
    split,       \* position in splits
    x_idx,       \* position in data[split]
    combs,       \* the combinations of the path at hand still to be tried
    graph_G,     \* G of block_edge.py: the working graph of the path at hand
    backup_G,    \* backup_G
    paths,       \* path ids met so far
    block_list,  \* path_id -> the records kept for it (one scan)
    counters,    \* path_num, path_block_num, duplicate_num
    lengths,     \* original_lengths, modified_lengths
    comb_out,    \* what the last combination computed
    syn_pc,      \* position in block_edge.py
    output,      \* the dumped file
    conn_data,   \* the connectivity file of a scan: included, unobstructed
    ld_i,        \* position of load_nav_graphs in the file
    ld_G,        \* the graph load_nav_graphs is building
    ld_pc        \* position in load_nav_graphs

arb_vars == <<arb_in, arb_out>>

roll_vars == <<cfg, eps, sims, obs, gmaps, traj, ended, just_ended, steps, base_t,
               scanvp_cands, nav, pc, lane, srch>>

syn_vars == <<args_nums, data, split, x_idx, combs, graph_G, backup_G, paths, block_list,
              counters, lengths, comb_out, syn_pc, output>>

load_vars == <<conn_data, ld_i, ld_G, ld_pc>>

vars == <<arb_vars, roll_vars, syn_vars, load_vars>>

-----------------------------------------------------------------------------
(* Bounds *)

MaxMoves == 3      \* hops made before the teacher actions are applied (SpecArbiter)

-----------------------------------------------------------------------------
(* Values *)

None == "None"

ignoreid == 0 - 100

inf == 1000000000

\* Outcome of a call: the index stored in a[i], or the exception that left it
Ret(x) == [raised |-> FALSE, a |-> x]

Raise == [raised |-> TRUE, a |-> 0]

SeqMin(a, b) == IF a <= b THEN a ELSE b

\* The least element of S, top when S is empty or holds nothing smaller
MinOf(S, top) == IF S = {} THEN top ELSE SeqMin(top, CHOOSE d \in S : \A e \in S : d <= e)

Range(s) == {s[k] : k \in 1..Len(s)}

\* Python's s[-1]
Last(s) == s[Len(s)]

-----------------------------------------------------------------------------
(* The environment: one scan, its connectivity graph and one blocked edge.  *)
(* The navigable graph A-B-D-C-A carries the distances of the arbiter       *)
(* scenario of the specification (d(A,B)=2, d(B,D)=5, d(C,D)=3, d(A,C)=9);  *)
(* the edge A-D is the blocked one, so D is seen but not navigable from A.  *)

Vps == {"A", "B", "C", "D"}

weight(x, y) ==
    CASE {x, y} = {"A", "B"} -> 2
      [] {x, y} = {"B", "D"} -> 5
      [] {x, y} = {"C", "D"} -> 3
      [] {x, y} = {"A", "C"} -> 9
      [] {x, y} = {"A", "D"} -> 6
      [] OTHER -> inf

block == {{"A", "D"}}

\* Edges of the connectivity graph that are not blocked
unobstructed(x, y) == x # y /\ weight(x, y) < inf /\ {x, y} \notin block

neighbors(x) == {y \in Vps : unobstructed(x, y)}

RECURSIVE DistWithin(_, _, _)
DistWithin(x, y, hops) ==
    IF x = y THEN 0
    ELSE IF hops = 0 THEN inf
    ELSE MinOf({weight(x, z) + DistWithin(z, y, hops - 1) : z \in neighbors(x)}, inf)

\* env.shortest_distances[(scan, block)][x][y]
shortest_distances == [x \in Vps |-> [y \in Vps |-> DistWithin(x, y, Cardinality(Vps) - 1)]]

\* env.shortest_paths[scan][x][y]: the node sequence from x to y, both included
RECURSIVE shortest_paths(_, _)
shortest_paths(x, y) ==
    IF x = y THEN <<x>>
    ELSE LET z == CHOOSE n \in neighbors(x) :
                      weight(x, n) + shortest_distances[n][y] = shortest_distances[x][y]
         IN  <<x>> \o shortest_paths(z, y)

\* Surrogate ("seen") nodes: the far end of a blocked edge, named apart
SeenNodes == {"seen_node_A", "seen_node_D"}

real_name(v) == IF v = "seen_node_A" THEN "A" ELSE "D"

\* 'seen_node' in vpid
is_seen_node(v) == v \in SeenNodes

\* The order in which the simulator lists viewpoints
VpOrder == <<"A", "B", "C", "D">>

Ord(v) == CHOOSE k \in 1..Len(VpOrder) : VpOrder[k] = v

surrogate_of(w) == IF w = "A" THEN "seen_node_A" ELSE "seen_node_D"

InSeq(v, s) == \E k \in 1..Len(s) : s[k] = v

\* ob['candidate']: the navigable neighbours, as viewpoint ids
candidate(vp) == SelectSeq(VpOrder, LAMBDA w : unobstructed(vp, w))

\* ob['seen_node']: the surrogates of the viewpoints behind a blocked edge
seen_node(vp) ==
    LET far == SelectSeq(VpOrder, LAMBDA w : {vp, w} \in block)
    IN  [k \in 1..Len(far) |-> surrogate_of(far[k])]

\* cand['pointId']: the discretized direction (0..35) in which vp sees w
pointId(vp, w) == (Ord(vp) * 9 + Ord(w) * 7) % 36

\* The reference paths of the data set: (gt_path, original_path, endpoint)
Episodes ==
    { [gt_path |-> <<"A", "B", "D">>,      original_path |-> <<"A", "B", "D">>,      endpoint |-> "D"],
      [gt_path |-> <<"A", "C", "D">>,      original_path |-> <<"A", "C", "D">>,      endpoint |-> "D"],
      [gt_path |-> <<"A", "B", "A", "C">>, original_path |-> <<"A", "B", "A", "C">>, endpoint |-> "C"],
      [gt_path |-> <<"D", "B">>,           original_path |-> <<"D", "B", "A">>,      endpoint |-> "A"],
      [gt_path |-> <<"B", "A">>,           original_path |-> <<"B", "A">>,           endpoint |-> "A"] }

\* env._get_ob: the observation at vp in episode ep
get_ob(ep, vp) ==
    [viewpoint |-> vp, gt_path |-> ep.gt_path, original_path |-> ep.original_path,
     endpoint |-> ep.endpoint, candidate |-> candidate(vp), seen_node |-> seen_node(vp)]


-----------------------------------------------------------------------------
(* GraphMap: the per-episode incremental map (models/graph_utils.py, from   *)
(* which agent.py imports GraphMap).  A map is a record                     *)
(*   node_positions   the discovered ids, in insertion order                *)
(*   edges            the known edges, each a two-element set               *)
(*   visited          the viewpoints the agent has stood on                 *)
(*   dis              the distances over the known edges                    *)
(*   node_step_ids    viewpoint -> discovery step                           *)
(*   node_stop_scores the recorded (viewpoint, stop score) pairs, in the    *)
(*                    order of first recording                              *)
(* Routes run through visited viewpoints only: they are the only ones whose *)
(* outgoing hops have a cached direction index (agent.py:578).              *)

sentinel == 10000000

RECURSIVE KnownDist(_, _, _, _)
KnownDist(g, x, y, hops) ==
    IF x = y THEN 0
    ELSE IF hops = 0 THEN sentinel
    ELSE MinOf({weight(x, z) + KnownDist(g, z, y, hops - 1) :
                   z \in {n \in Vps : {x, n} \in g.edges /\ (n = y \/ n \in g.visited)}},
               sentinel)

\* The distance table the graph keeps and refreshes on every update
known_distances(g) ==
    [x \in Vps |-> [y \in Vps |-> KnownDist(g, x, y, Cardinality(Vps) - 1)]]

\* gmap.graph.distance(x, y): a number >= 1e7 when no known route joins x and y
graph_distance(g, x, y) ==
    IF x \in Vps /\ y \in Vps THEN g.dis[x][y] ELSE sentinel

\* gmap.graph.visited(v)
graph_visited(g, v) == v \in g.visited

\* gmap.graph.path(x, y): the hops of the known route from x to y, x itself
\* left out (a one-hop route has length 1: agent.py:574-577)
RECURSIVE graph_path(_, _, _)
graph_path(g, x, y) ==
    IF x = y THEN <<>>
    ELSE LET z == CHOOSE n \in Vps :
                      /\ {x, n} \in g.edges
                      /\ (n = y \/ n \in g.visited)
                      /\ weight(x, n) + graph_distance(g, n, y) = graph_distance(g, x, y)
         IN  <<z>> \o graph_path(g, z, y)

\* Sequence s followed by the entries of new that s does not hold yet
RECURSIVE add_keys(_, _)
add_keys(s, new) ==
    IF new = <<>> THEN s
    ELSE add_keys(IF InSeq(Head(new), s) THEN s ELSE Append(s, Head(new)), Tail(new))

\* GraphMap(start_vp)
GraphMap(start_vp) ==
    [start_vp |-> start_vp, node_positions |-> <<>>, edges |-> {}, visited |-> {},
     dis |-> [x \in Vps |-> [y \in Vps |-> IF x = y THEN 0 ELSE sentinel]],
     node_step_ids |-> [v \in {} |-> 0], node_stop_scores |-> <<>>]

\* gmap.update_graph(ob): the viewpoint, its candidates (with their edges) and
\* its seen nodes (without edge) enter the map; the viewpoint becomes visited
set_distances(g) == [g EXCEPT !.dis = known_distances(g)]

update_graph(g, ob) ==
    set_distances(
        [g EXCEPT
            !.node_positions = add_keys(@, <<ob.viewpoint>> \o ob.candidate \o ob.seen_node),
            !.edges = @ \cup {{ob.viewpoint, ob.candidate[k]} : k \in 1..Len(ob.candidate)},
            !.visited = @ \cup {ob.viewpoint}])

-----------------------------------------------------------------------------
(* The candidate lists the policy indexes into *)

\* len(unvisited_vpids) == 0 or all('seen_node' in vpid for vpid in unvisited_vpids)
no_vp_left_empty(unvisited_vpids) == Len(unvisited_vpids) = 0

no_vp_left(unvisited_vpids) ==
    \/ Len(unvisited_vpids) = 0
    \/ \A k \in 1..Len(unvisited_vpids) : is_seen_node(unvisited_vpids[k])

\* _nav_gmap_variable, for one lane: [stop] + the map's nodes
nav_gmap_variable(ob, g, act_visited_nodes, enc_full_graph) ==
    LET keys == g.node_positions
        is_visited(k) == IF act_visited_nodes THEN k = ob.viewpoint ELSE graph_visited(g, k)
        visited_vpids == SelectSeq(keys, LAMBDA k : is_visited(k))
        unvisited_vpids == SelectSeq(keys, LAMBDA k : ~is_visited(k))
        seen_vp == IF act_visited_nodes THEN <<>>
                   ELSE SelectSeq(unvisited_vpids,
                            LAMBDA k : graph_distance(g, ob.viewpoint, k) >= sentinel)
        gmap_vpids == IF enc_full_graph THEN <<None>> \o visited_vpids \o unvisited_vpids
                      ELSE <<None>> \o unvisited_vpids
    IN  [gmap_vpids |-> gmap_vpids,
         gmap_visited_masks |->
             [k \in 1..Len(gmap_vpids) |->
                 enc_full_graph /\ k > 1 /\ k <= 1 + Len(visited_vpids)],
         no_vp_left |-> no_vp_left(unvisited_vpids),
         seen_mask |-> [k \in 1..Len(gmap_vpids) |-> ~InSeq(gmap_vpids[k], seen_vp)]]

\* _nav_vp_variable, for one lane: 'vp_cand_vpids': [None] + cand_vpids
nav_vp_variable_no_stop(ob) == ob.candidate

nav_vp_variable(ob) == <<None>> \o ob.candidate

-----------------------------------------------------------------------------
(* The teacher (expert) actions.  Each operator is the body of the per-lane *)
(* loop of the function of the same name: the value left in a[i].           *)

\* visited_masks is None, or a 0/1 entry per candidate
NoMask == [given |-> FALSE, m |-> <<>>]

Mask(m) == [given |-> TRUE, m |-> m]

\* (visited_masks is None) or (not visited_masks[i][j]), for Python's j = k - 1
unmasked_always(visited_masks, k) == TRUE

unmasked(visited_masks, k) == ~visited_masks.given \/ ~visited_masks.m[k]

\* if dist < min_dist: min_dist = dist; min_idx = j
RECURSIVE min_loop_le(_, _, _, _)
min_loop_le(legal, dist, k, best) ==
    IF k > Len(legal) THEN best.min_idx
    ELSE IF legal[k] /\ dist[k] <= best.min_dist
         THEN min_loop_le(legal, dist, k + 1, [min_idx |-> k - 1, min_dist |-> dist[k]])
         ELSE min_loop_le(legal, dist, k + 1, best)

RECURSIVE min_loop(_, _, _, _)
min_loop(legal, dist, k, best) ==
    IF k > Len(legal) THEN best.min_idx
    ELSE IF legal[k] /\ dist[k] < best.min_dist
         THEN min_loop(legal, dist, k + 1, [min_idx |-> k - 1, min_dist |-> dist[k]])
         ELSE min_loop(legal, dist, k + 1, best)

\* min_idx, min_dist = self.args.ignoreid, float('inf'), then the loop
arg_min_from_stop(legal, dist) == min_loop(legal, dist, 1, [min_idx |-> 0, min_dist |-> inf])

arg_min(legal, dist) == min_loop(legal, dist, 1, [min_idx |-> ignoreid, min_dist |-> inf])

\* shortest_distances[...][vpid][goal] + shortest_distances[...][cur_vp][vpid]
sp_score(cur_vp, vpid, goal) == shortest_distances[vpid][goal] + shortest_distances[cur_vp][vpid]

\* for j, vpid in enumerate(vpids): index of the first entry equal to goal_vp,
\* the initial 0 of np.zeros when there is none
RECURSIVE first_match(_, _, _)
first_match(vpids, goal_vp, k) ==
    IF k > Len(vpids) THEN 0
    ELSE IF vpids[k] = goal_vp THEN k - 1
    ELSE first_match(vpids, goal_vp, k + 1)

\* if ob['viewpoint'] == ob['gt_path'][-1]: a[i] = 0
never_arrived(ob) == FALSE

arrived(ob) == ob.viewpoint = Last(ob.gt_path)

\* if gmaps[i].graph.distance(ob['viewpoint'], vpid) >= 1e7: continue
never_unreachable(gmap, ob, vpid) == FALSE

unreachable(gmap, ob, vpid) == graph_distance(gmap, ob.viewpoint, vpid) >= sentinel

\* A lookup of shortest_distances / shortest_paths under an id that is no
\* viewpoint of the scan raises KeyError
key_error(vpids, legal) == \E k \in 1..Len(vpids) : legal[k] /\ vpids[k] \notin Vps

teacher_action(ob, vpids, ended_i, visited_masks) ==
    IF ended_i THEN Ret(ignoreid)
    ELSE IF arrived(ob) THEN Ret(0)
    ELSE LET legal == [k \in 1..Len(vpids) |-> k > 1 /\ unmasked(visited_masks, k)]
             dist  == [k \in 1..Len(vpids) |->
                          IF legal[k] /\ vpids[k] \in Vps
                          THEN sp_score(ob.viewpoint, vpids[k], Last(ob.gt_path))
                          ELSE inf]
         IN  IF key_error(vpids, legal) THEN Raise ELSE Ret(arg_min(legal, dist))


\* cal_dtw(shortest_distances, prediction, reference)['nDTW'] is
\* exp(-DTW / (threshold * len(reference))), which falls as DTW grows: the
\* candidates are ordered by -nDTW exactly as by DTW, the value kept here
dtw(prediction, reference) ==
    LET n == Len(prediction)
        m == Len(reference)
        D[i \in 0..n, j \in 0..m] ==
            IF i = 0 /\ j = 0 THEN 0
            ELSE IF i = 0 \/ j = 0 THEN inf
            ELSE shortest_distances[prediction[i]][reference[j]]
                 + SeqMin(D[i - 1, j], SeqMin(D[i, j - 1], D[i - 1, j - 1]))
    IN  D[n, m]

\* sum(traj['path'], [])
RECURSIVE flatten(_)
flatten(path) == IF path = <<>> THEN <<>> ELSE Head(path) \o flatten(Tail(path))

ndtw_score(ob, vpid, traj_i) ==
    dtw(flatten(traj_i) \o Tail(shortest_paths(ob.viewpoint, vpid)), ob.gt_path)

\* The imitation-learning branch shared by _teacher_action_r4r and
\* _teacher_action_r4r_search (t is Python's 0-based position)
imitation_r4r(ob, vpids, t) ==
    IF t > Len(ob.gt_path) - 1 \/ ob.viewpoint # ob.gt_path[t + 1] THEN Raise
    ELSE IF t = Len(ob.gt_path) - 1 THEN Ret(0)
    ELSE Ret(first_match(vpids, ob.gt_path[t + 2], 1))

teacher_action_r4r(gmap, ob, vpids, ended_i, visited_masks, imitation_learning, t, traj_i, expert_policy) ==
    IF ended_i THEN Ret(ignoreid)
    ELSE IF imitation_learning THEN imitation_r4r(ob, vpids, t)
    ELSE IF arrived(ob) THEN Ret(0)
    ELSE LET legal == [k \in 1..Len(vpids) |->
                          /\ ~unreachable(gmap, ob, vpids[k])
                          /\ k > 1
                          /\ unmasked(visited_masks, k)]
             dist  == [k \in 1..Len(vpids) |->
                          IF ~legal[k] \/ vpids[k] \notin Vps THEN inf
                          ELSE IF expert_policy = "ndtw" THEN ndtw_score(ob, vpids[k], traj_i)
                          ELSE sp_score(ob.viewpoint, vpids[k], ob.endpoint)]
         IN  IF key_error(vpids, legal) THEN Raise ELSE Ret(arg_min(legal, dist))

teacher_action_r4r_vln(gmap, ob, vpids, ended_i, visited_masks, imitation_learning, t, traj_i, base_t_i, expert_policy) ==
    IF ended_i THEN Ret(ignoreid)
    ELSE IF imitation_learning THEN
        IF \/ t > Len(ob.gt_path) - 1
           \/ base_t_i > Len(ob.original_path) - 1
           \/ ob.viewpoint # ob.gt_path[t + 1]
           \/ ob.viewpoint # ob.original_path[base_t_i + 1]
        THEN Raise
        ELSE IF t = Len(ob.gt_path) - 1 THEN Ret(0)
        ELSE IF base_t_i + 1 > Len(ob.original_path) - 1 THEN Raise
        ELSE Ret(first_match(vpids, ob.original_path[base_t_i + 2], 1))
    ELSE IF arrived(ob) THEN Ret(0)
    ELSE LET legal == [k \in 1..Len(vpids) |-> k > 1 /\ unmasked(visited_masks, k)]
             real_vpid(k) == IF is_seen_node(vpids[k]) THEN real_name(vpids[k]) ELSE vpids[k]
             dist  == [k \in 1..Len(vpids) |->
                          IF ~legal[k] THEN inf
                          ELSE IF expert_policy = "ndtw"
                               THEN (IF vpids[k] \in Vps THEN ndtw_score(ob, vpids[k], traj_i) ELSE inf)
                          ELSE sp_score(ob.viewpoint, real_vpid(k), ob.endpoint)]
         IN  IF expert_policy = "ndtw" /\ key_error(vpids, legal) THEN Raise
             ELSE Ret(arg_min(legal, dist))

teacher_action_r4r_search(gmap, ob, vpids, ended_i, target, visited_masks, imitation_learning, t) ==
    IF ended_i THEN Ret(ignoreid)
    ELSE IF imitation_learning THEN imitation_r4r(ob, vpids, t)
    ELSE IF ob.viewpoint = target THEN Ret(0)
    ELSE LET legal == [k \in 1..Len(vpids) |->
                          /\ ~unreachable(gmap, ob, vpids[k])
                          /\ k > 1
                          /\ unmasked(visited_masks, k)]
             dist  == [k \in 1..Len(vpids) |->
                          IF legal[k] /\ vpids[k] \in Vps
                          THEN sp_score(ob.viewpoint, vpids[k], target) ELSE inf]
         IN  IF key_error(vpids, legal) THEN Raise ELSE Ret(arg_min(legal, dist))

-----------------------------------------------------------------------------
(* SpecArbiter: the agent explores the map for up to MaxMoves hops; at any  *)
(* point each teacher action is applied the way rollout and search_rollout  *)
(* call it (agent.py:745-749, 909-932), under every option setting.         *)

Fusions == {"local", "global", "dynamic"}

Options == [fusion : Fusions, enc_full_graph : BOOLEAN, act_visited_nodes : BOOLEAN]

\* nav_vpids and the visited_masks argument, as rollout selects them
nav_vpids(opt, ob, g) ==
    IF opt.fusion = "local" THEN nav_vp_variable(ob)
    ELSE nav_gmap_variable(ob, g, opt.act_visited_nodes, opt.enc_full_graph).gmap_vpids

nav_masks(opt, ob, g) ==
    IF opt.fusion = "local" THEN NoMask
    ELSE Mask(nav_gmap_variable(ob, g, opt.act_visited_nodes, opt.enc_full_graph).gmap_visited_masks)

NoCall == [fn |-> "none"]

\* No rollout runs while the teacher actions are applied on their own
RollIdle ==
    /\ cfg = None /\ eps = None /\ sims = None /\ obs = None /\ gmaps = None
    /\ traj = None /\ ended = None /\ just_ended = None /\ steps = None
    /\ base_t = None /\ scanvp_cands = None /\ nav = None /\ pc = None
    /\ lane = None /\ srch = None

\* block_edge.py is not running
SynIdle ==
    /\ args_nums = None /\ data = None /\ split = None /\ x_idx = None /\ combs = None
    /\ paths = None /\ block_list = None /\ counters = None /\ lengths = None
    /\ comb_out = None /\ syn_pc = None /\ output = None
    /\ graph_G = None /\ backup_G = None

\* load_nav_graphs is not running
LoadIdle == conn_data = None /\ ld_i = None /\ ld_G = None /\ ld_pc = None

ArbInit ==
    /\ RollIdle
    /\ SynIdle
    /\ LoadIdle
    /\ \E ep \in Episodes :
          LET start == ep.gt_path[1]
          IN  arb_in = [ep |-> ep, viewpoint |-> start,
                        gmap |-> update_graph(GraphMap(start), get_ob(ep, start)),
                        traj |-> << <<start>> >>]
    /\ arb_out = NoCall

\* One resolved action: the recorded segment, the move, the new observation
ArbMove ==
    /\ arb_out = NoCall
    /\ Len(arb_in.traj) <= MaxMoves
    /\ \E w \in Vps \ {arb_in.viewpoint} :
          /\ graph_distance(arb_in.gmap, arb_in.viewpoint, w) < sentinel
          /\ arb_in' = [arb_in EXCEPT
                            !.viewpoint = w,
                            !.traj = Append(@, graph_path(arb_in.gmap, arb_in.viewpoint, w)),
                            !.gmap = update_graph(@, get_ob(arb_in.ep, w))]
    /\ arb_out' = NoCall
    /\ UNCHANGED <<roll_vars, syn_vars, load_vars>>

ArbOb == get_ob(arb_in.ep, arb_in.viewpoint)

\* Teacher forcing has kept the agent on the reference path up to position t
OnReference(path, t) ==
    /\ t + 1 <= Len(path)
    /\ flatten(arb_in.traj) = SubSeq(path, 1, t + 1)

Call(fn, opt, ended_i, il, policy, t, base_t_i, target, res) ==
    [fn |-> fn, opt |-> opt, ended |-> ended_i, imitation_learning |-> il,
     expert_policy |-> policy, t |-> t, base_t |-> base_t_i, target |-> target,
     vpids |-> nav_vpids(opt, ArbOb, arb_in.gmap),
     visited_masks |-> nav_masks(opt, ArbOb, arb_in.gmap),
     res |-> res]

ApplyTeacherAction ==
    /\ arb_out = NoCall
    /\ \E opt \in Options, ended_i \in BOOLEAN :
          \* every unmasked entry is looked up in shortest_distances: real viewpoints only
          /\ \A v \in Range(nav_vpids(opt, ArbOb, arb_in.gmap)) : ~is_seen_node(v)
          /\ arb_out' = Call("teacher_action", opt, ended_i, FALSE, "sp", 0, 0, None,
                          teacher_action(ArbOb, nav_vpids(opt, ArbOb, arb_in.gmap), ended_i,
                                         nav_masks(opt, ArbOb, arb_in.gmap)))
    /\ UNCHANGED <<arb_in, roll_vars, syn_vars, load_vars>>

ApplyTeacherActionR4R ==
    /\ arb_out = NoCall
    /\ \E opt \in Options, ended_i \in BOOLEAN, il \in BOOLEAN, policy \in {"ndtw", "spl"},
          t \in 0..(Len(arb_in.ep.gt_path) - 1) :
          /\ (~il \/ ended_i) => t = 0
          /\ il => policy = "spl" /\ OnReference(arb_in.ep.gt_path, t)
          /\ arb_out' = Call("teacher_action_r4r", opt, ended_i, il, policy, t, 0, None,
                          teacher_action_r4r(arb_in.gmap, ArbOb,
                              nav_vpids(opt, ArbOb, arb_in.gmap), ended_i,
                              nav_masks(opt, ArbOb, arb_in.gmap), il, t, arb_in.traj, policy))
    /\ UNCHANGED <<arb_in, roll_vars, syn_vars, load_vars>>

ApplyTeacherActionR4RVln ==
    /\ arb_out = NoCall
    /\ \E opt \in Options, ended_i \in BOOLEAN, il \in BOOLEAN, policy \in {"ndtw", "spl"},
          t \in 0..(Len(arb_in.ep.gt_path) - 1),
          base_t_i \in 0..(Len(arb_in.ep.original_path) - 1) :
          /\ (~il \/ ended_i) => (t = 0 /\ base_t_i = 0)
          /\ il => policy = "spl" /\ t = base_t_i /\ OnReference(arb_in.ep.original_path, base_t_i)
          /\ arb_out' = Call("teacher_action_r4r_vln", opt, ended_i, il, policy, t, base_t_i, None,
                          teacher_action_r4r_vln(arb_in.gmap, ArbOb,
                              nav_vpids(opt, ArbOb, arb_in.gmap), ended_i,
                              nav_masks(opt, ArbOb, arb_in.gmap), il, t, arb_in.traj, base_t_i,
                              policy))
    /\ UNCHANGED <<arb_in, roll_vars, syn_vars, load_vars>>

\* search_rollout's target is the real viewpoint behind a surrogate
ApplyTeacherActionR4RSearch ==
    /\ arb_out = NoCall
    /\ \E opt \in Options, ended_i \in BOOLEAN, il \in BOOLEAN,
          target \in {real_name(v) : v \in SeenNodes},
          t \in 0..(Len(arb_in.ep.gt_path) - 1) :
          /\ (~il \/ ended_i) => t = 0
          /\ il => OnReference(arb_in.ep.gt_path, t)
          /\ arb_out' = Call("teacher_action_r4r_search", opt, ended_i, il, "sp", t, 0, target,
                          teacher_action_r4r_search(arb_in.gmap, ArbOb,
                              nav_vpids(opt, ArbOb, arb_in.gmap), ended_i, target,
                              nav_masks(opt, ArbOb, arb_in.gmap), il, t))
    /\ UNCHANGED <<arb_in, roll_vars, syn_vars, load_vars>>

ArbNext ==
    \/ ArbMove
    \/ ApplyTeacherAction
    \/ ApplyTeacherActionR4R
    \/ ApplyTeacherActionR4RVln
    \/ ApplyTeacherActionR4RSearch

SpecArbiter == ArbInit /\ [][ArbNext]_vars

-----------------------------------------------------------------------------
(* Spec: GMapNavAgent.rollout.  One action per stage of the loop body:      *)
(*   Decide              candidate lists, stop scores, teacher targets,     *)
(*                       a_t, cpu_a_t                       (lines 846-977) *)
(*   MakeEquivAction     the resolver, search-target off    (line 983)      *)
(*   MakeEquivActionVln  the resolver of one lane, search-target on; it     *)
(*                       may enter search_rollout           (line 981)      *)
(*   SearchRollout       one iteration of search_rollout's loop             *)
(*   DetermineStop       the stop viewpoint                 (lines 985-1019)*)
(*   Observe             new observations, map update, ended(lines 1021-35) *)
(* The network (self.vln_bert) is not modelled: the index it makes the      *)
(* policy choose and the stop probability it reports are drawn from the     *)
(* values its masks leave possible.  The seen mask is laid over the logits  *)
(* of the map (agent.py:895, 734), so the rollout is run under the fusions  *)
(* whose logits range over the map; the seen-stop option is off.            *)

\* self.args.max_action_len
max_action_len == 5

\* len(obs)
batch_size == Len(eps)

Lanes == 1..batch_size

\* nav_probs[i, 0], as far as its order matters
StopScores == {1, 2}

Feedbacks == {"teacher", "argmax", "sample", "expl_sample"}

Configs ==
    {c \in [feedback : Feedbacks, train_ml : BOOLEAN, search_target : BOOLEAN,
            seen_stop : {FALSE}, fusion : {"global", "dynamic"},
            enc_full_graph : BOOLEAN, act_visited_nodes : BOOLEAN,
            expert_policy : {"spl", "ndtw"}] :
        \* teacher forcing reads nav_targets: it is run with train_ml given
        /\ c.feedback = "teacher" => c.train_ml
        \* the objective is looked at by the score-based teacher action only
        /\ (~c.train_ml \/ c.feedback = "teacher") => c.expert_policy = "spl"}

\* The batches env.reset() serves
Batches == {<<ep>> : ep \in Episodes}

\* The options as the training script sets them
default_options(c) ==
    /\ c.fusion = "dynamic" /\ c.enc_full_graph /\ ~c.act_visited_nodes
    /\ c.expert_policy = "spl"

\* The options that differ from the training script's, one at a time
one_option_changed(c) ==
    Cardinality({k \in {"fusion", "enc_full_graph", "act_visited_nodes", "expert_policy"} :
                    CASE k = "fusion" -> c.fusion # "dynamic"
                      [] k = "enc_full_graph" -> ~c.enc_full_graph
                      [] k = "act_visited_nodes" -> c.act_visited_nodes
                      [] OTHER -> c.expert_policy # "spl"}) = 1

\* The rollouts run: a configuration and a batch.  Every feedback is run on
\* every batch of one lane with the search-target option off; with it on,
\* the greedy and the teacher-forced rollouts are run from the two ends of
\* the blocked edge; a changed option is run on the shortest episode.
Runs ==
    {r \in [cfg : Configs, eps : Batches] :
        \/ default_options(r.cfg) /\ ~r.cfg.search_target
        \/ /\ default_options(r.cfg) /\ r.cfg.search_target /\ r.cfg.train_ml
           /\ r.cfg.feedback \in {"teacher", "argmax"}
           /\ r.eps[1].gt_path \in {<<"A", "B", "D">>, <<"D", "B">>}
        \/ /\ one_option_changed(r.cfg) /\ ~r.cfg.search_target /\ r.cfg.train_ml
           /\ r.cfg.feedback = "sample"
           /\ r.eps[1].gt_path = <<"B", "A">>}

\* {}
EmptyDict == [x \in {} |-> 0]

\* d[k] = v on a dict
dict_set(d, k, v) == [x \in DOMAIN d \cup {k} |-> IF x = k THEN v ELSE d[x]]

\* gmap.node_stop_scores[vp] = {'stop': s}: a dict keeps the order of first insertion
set_stop_score(scores, vp, s) ==
    IF \E k \in 1..Len(scores) : scores[k].vp = vp
    THEN [k \in 1..Len(scores) |->
             IF scores[k].vp = vp THEN [vp |-> vp, stop |-> s] ELSE scores[k]]
    ELSE Append(scores, [vp |-> vp, stop |-> s])

\* _update_scanvp_cands / _update_scanvp_cands_search, for one observation
update_scanvp_cands(cache, ob) ==
    LET old == IF ob.viewpoint \in DOMAIN cache THEN cache[ob.viewpoint] ELSE EmptyDict
        cands == Range(ob.candidate)
    IN  dict_set(cache, ob.viewpoint,
                 [w \in DOMAIN old \cup cands |->
                     IF w \in cands THEN pointId(ob.viewpoint, w) ELSE old[w]])

RECURSIVE update_scanvp_cands_all(_, _, _)
update_scanvp_cands_all(cache, vp_of, i) ==
    IF i > batch_size THEN cache
    ELSE update_scanvp_cands_all(update_scanvp_cands(cache, get_ob(eps[i], vp_of[i])),
                                 vp_of, i + 1)

\* heading = (viewidx % 12) * math.radians(30), in degrees
heading_div(viewidx) == (viewidx \div 12) * 30

heading(viewidx) == (viewidx % 12) * 30

\* elevation = (viewidx // 12 - 1) * math.radians(30), in degrees
elevation(viewidx) == ((viewidx \div 12) - 1) * 30

\* sims[i].newEpisode([scan], [action], [heading], [elevation])
newEpisode(action, h, e) == [viewpoint |-> action, heading |-> h, elevation |-> e]

\* prev_vp, from the path the new segment has been appended to
prev_vp(path) ==
    IF Len(Last(path)) = 1 THEN Last(path[Len(path) - 1])
    ELSE Last(path)[Len(Last(path)) - 1]

\* gmaps[i].graph.distance(ob['viewpoint'], action) < 1e7
within_reach_le(g, vp, action) == graph_distance(g, vp, action) <= sentinel

within_reach(g, vp, action) == graph_distance(g, vp, action) < sentinel

\* Lines 573-581 (592-600, 616-626): the segment is recorded, the pose
\* computed, the simulator moved.  raised: no route to the target is known
\* (a surrogate: whatever graph.path answers, no direction is cached for it),
\* IndexError (empty segment) or KeyError (no direction cached for the hop).
resolve_target_only(g, vp, path, action, cache, sim) ==
    IF graph_distance(g, vp, action) >= sentinel \/ vp = action
    THEN [raised |-> TRUE, path |-> path, sim |-> sim]
    ELSE LET p == prev_vp(Append(path, graph_path(g, vp, action)))
         IN  IF p \notin DOMAIN cache THEN [raised |-> TRUE, path |-> path, sim |-> sim]
             ELSE IF action \notin DOMAIN cache[p]
             THEN [raised |-> TRUE, path |-> path, sim |-> sim]
             ELSE [raised |-> FALSE, path |-> Append(path, <<action>>),
                   sim |-> newEpisode(action, heading(cache[p][action]),
                                      elevation(cache[p][action]))]

resolve(g, vp, path, action, cache, sim) ==
    IF graph_distance(g, vp, action) >= sentinel \/ vp = action
    THEN [raised |-> TRUE, path |-> path, sim |-> sim]
    ELSE LET new_path == Append(path, graph_path(g, vp, action))
             p == prev_vp(new_path)
         IN  IF p \notin DOMAIN cache THEN [raised |-> TRUE, path |-> path, sim |-> sim]
             ELSE IF action \notin DOMAIN cache[p]
             THEN [raised |-> TRUE, path |-> path, sim |-> sim]
             ELSE [raised |-> FALSE, path |-> new_path,
                   sim |-> newEpisode(action, heading(cache[p][action]),
                                      elevation(cache[p][action]))]

\* make_equiv_action for one lane
make_equiv_action_unguarded(g, vp, path, action, cache, sim) ==
    IF action = None THEN [raised |-> FALSE, path |-> Append(path, <<vp>>), sim |-> sim]
    ELSE resolve(g, vp, path, action, cache, sim)

make_equiv_action(g, vp, path, action, cache, sim) ==
    IF action = None THEN [raised |-> FALSE, path |-> path, sim |-> sim]
    ELSE resolve(g, vp, path, action, cache, sim)

\* make_equiv_action_search: the same body, for the lane of the search
make_equiv_action_search(g, vp, path, action, cache, sim) ==
    IF action = None THEN [raised |-> FALSE, path |-> path, sim |-> sim]
    ELSE resolve(g, vp, path, action, cache, sim)

\* The indices the logits leave to the policy: the network masks the visited
\* nodes, rollout masks the seen ones unless search-target is on
policy_choices(inp, apply_seen_mask) ==
    {j \in 0..(Len(inp.gmap_vpids) - 1) :
        \/ j = 0
        \/ /\ ~inp.gmap_visited_masks[j + 1]
           /\ apply_seen_mask => inp.seen_mask[j + 1]}

\* cand_a_t: gmap_masks * gmap_visited_masks.logical_not()
explore_choices(inp) ==
    {j \in 0..(Len(inp.gmap_vpids) - 1) : ~inp.gmap_visited_masks[j + 1]}

\* The values a_t can take under self.feedback, nav_targets apart
a_t_choices(inp, apply_seen_mask) ==
    IF cfg.feedback = "teacher" THEN {0}
    ELSE IF cfg.feedback = "expl_sample"
         THEN policy_choices(inp, apply_seen_mask) \cup explore_choices(inp)
    ELSE policy_choices(inp, apply_seen_mask)

NoTargets == [given |-> FALSE, res |-> Ret(0)]

Targets(res) == [given |-> TRUE, res |-> res]

NoDecision == [nav_vpids |-> <<None>>, nav_targets |-> NoTargets, a_t |-> 0, cpu_a_t |-> None,
               raised |-> FALSE]

NoSearch == [idx |-> 0]

lane_ob(i) == get_ob(eps[i], obs[i])

lane_inputs(i) ==
    nav_gmap_variable(lane_ob(i), gmaps[i], cfg.act_visited_nodes, cfg.enc_full_graph)

\* Lines 810-828 and 965-966, in the first rollout of an agent, for the runs R
InitOf(R) ==
    /\ arb_in = None /\ arb_out = None
    /\ SynIdle
    /\ LoadIdle
    /\ \E r \in R : cfg = r.cfg /\ eps = r.eps
    /\ sims = [i \in Lanes |-> newEpisode(eps[i].gt_path[1], 0, 0)]
    /\ obs = [i \in Lanes |-> eps[i].gt_path[1]]
    /\ scanvp_cands = update_scanvp_cands_all(EmptyDict, obs, 1)
    /\ gmaps = [i \in Lanes |-> update_graph(GraphMap(obs[i]), lane_ob(i))]
    /\ traj = [i \in Lanes |-> << <<obs[i]>> >>]
    /\ ended = [i \in Lanes |-> FALSE]
    /\ just_ended = [i \in Lanes |-> FALSE]
    /\ steps = [i \in Lanes |-> 0]
    /\ base_t = 0
    /\ nav = [i \in Lanes |-> NoDecision]
    /\ pc = "decide"
    /\ lane = 1
    /\ srch = NoSearch

Init == InitOf(Runs)

\* Lines 871-932 for lane i: the candidate list and the teacher's target
nav_targets(i) ==
    LET ob == lane_ob(i)
        vpids == nav_vpids(cfg, ob, gmaps[i])
        il == cfg.feedback = "teacher"
    IN  IF ~cfg.train_ml THEN NoTargets
        ELSE IF cfg.search_target
        THEN Targets(teacher_action_r4r_vln(gmaps[i], ob, vpids, ended[i],
                         nav_masks(cfg, ob, gmaps[i]), il, steps[i], traj[i], base_t,
                         cfg.expert_policy))
        ELSE Targets(teacher_action_r4r(gmaps[i], ob, vpids, ended[i],
                         nav_masks(cfg, ob, gmaps[i]), il, base_t, traj[i],
                         cfg.expert_policy))

\* Lines 937-977 for lane i, the policy's index being choice
decide_indexing_first(i, inp, vpids, targets, choice) ==
    LET ob == lane_ob(i)
        a_t == IF cfg.feedback = "teacher" THEN targets.res.a ELSE choice
        a_t_stop == IF cfg.feedback \in {"teacher", "sample"}
                    THEN ob.viewpoint = Last(ob.gt_path)
                    ELSE a_t = 0
        halt == a_t_stop \/ ended[i] \/ inp.no_vp_left \/ steps[i] = max_action_len - 1
        index_error == a_t \notin 0..(Len(vpids) - 1)
    IN  [nav_vpids |-> vpids,
         nav_targets |-> targets,
         a_t |-> a_t,
         cpu_a_t |-> IF halt \/ index_error THEN None ELSE vpids[a_t + 1],
         just_ended |-> halt,
         raised |-> targets.res.raised \/ index_error]

decide_without_budget(i, inp, vpids, targets, choice) ==
    LET ob == lane_ob(i)
        a_t == IF cfg.feedback = "teacher" THEN targets.res.a ELSE choice
        a_t_stop == IF cfg.feedback \in {"teacher", "sample"}
                    THEN ob.viewpoint = Last(ob.gt_path)
                    ELSE a_t = 0
        halt == a_t_stop \/ ended[i] \/ inp.no_vp_left
        index_error == ~halt /\ a_t \notin 0..(Len(vpids) - 1)
    IN  [nav_vpids |-> vpids,
         nav_targets |-> targets,
         a_t |-> a_t,
         cpu_a_t |-> IF halt \/ index_error THEN None ELSE vpids[a_t + 1],
         just_ended |-> halt,
         raised |-> targets.res.raised \/ index_error]

decide(i, inp, vpids, targets, choice) ==
    LET ob == lane_ob(i)
        a_t == IF cfg.feedback = "teacher" THEN targets.res.a ELSE choice
        a_t_stop == IF cfg.feedback \in {"teacher", "sample"}
                    THEN ob.viewpoint = Last(ob.gt_path)
                    ELSE a_t = 0
        halt == a_t_stop \/ ended[i] \/ inp.no_vp_left \/ steps[i] = max_action_len - 1
        index_error == ~halt /\ a_t \notin 0..(Len(vpids) - 1)
    IN  [nav_vpids |-> vpids,
         nav_targets |-> targets,
         a_t |-> a_t,
         cpu_a_t |-> IF halt \/ index_error THEN None ELSE vpids[a_t + 1],
         just_ended |-> halt,
         raised |-> targets.res.raised \/ index_error]

\* Lines 846-848: gmap.node_step_ids[obs[i]['viewpoint']] = steps[i] + 1, for
\* the lanes that have not ended
set_node_step_id_of_every_lane(lane_ended, ids, vp, step) == dict_set(ids, vp, step + 1)

set_node_step_id(lane_ended, ids, vp, step) ==
    IF lane_ended THEN ids ELSE dict_set(ids, vp, step + 1)

\* The decisions d and the stop scores of one iteration are stored
Decided(d, score) ==
    /\ gmaps' = [i \in Lanes |->
                    [gmaps[i] EXCEPT
                        !.node_step_ids = set_node_step_id(ended[i], @, obs[i], steps[i]),
                        !.node_stop_scores = IF ended[i] THEN @
                                             ELSE set_stop_score(@, obs[i], score[i])]]
    /\ nav' = [i \in Lanes |-> [nav_vpids |-> d[i].nav_vpids,
                                 nav_targets |-> d[i].nav_targets,
                                 a_t |-> d[i].a_t, cpu_a_t |-> d[i].cpu_a_t,
                                 raised |-> d[i].raised]]
    /\ just_ended' = [i \in Lanes |-> just_ended[i] \/ d[i].just_ended]
    /\ IF \A i \in Lanes : ~d[i].raised
       THEN pc' = "act" /\ lane' = 1
       ELSE pc' = "raised" /\ lane' = CHOOSE i \in Lanes :
                                          d[i].raised /\ \A k \in 1..(i - 1) : ~d[k].raised

\* The policy draws an index for every lane
Policy(inp, vpids, targets) ==
    \E choice \in {f \in [Lanes -> 0..(Cardinality(Vps) + Cardinality(SeenNodes))] :
                      \A i \in Lanes :
                         f[i] \in (IF ended[i] THEN {0}
                                   ELSE a_t_choices(inp[i], ~cfg.search_target))},
       score \in {f \in [Lanes -> StopScores] : \A i \in Lanes : ended[i] => f[i] = 1} :
       Decided([i \in Lanes |-> decide(i, inp[i], vpids[i], targets[i], choice[i])], score)

Decide ==
    /\ pc = "decide"
    /\ Policy([i \in Lanes |-> lane_inputs(i)],
              [i \in Lanes |-> nav_vpids(cfg, lane_ob(i), gmaps[i])],
              [i \in Lanes |-> nav_targets(i)])
    /\ UNCHANGED <<arb_vars, syn_vars, load_vars, cfg, eps, sims, obs, traj, ended, steps, base_t, scanvp_cands, srch>>

\* Line 983: make_equiv_action(cpu_a_t, gmaps, obs, traj)
MakeEquivAction ==
    /\ pc = "act"
    /\ ~cfg.search_target
    /\ LET r == [i \in Lanes |->
                    make_equiv_action(gmaps[i], obs[i], traj[i], nav[i].cpu_a_t,
                                      scanvp_cands, sims[i])]
           failed == {i \in Lanes : r[i].raised}
           first == CHOOSE i \in failed : \A k \in failed : i <= k
           done(i) == failed = {} \/ i < first
       IN  /\ traj' = [i \in Lanes |-> IF done(i) THEN r[i].path ELSE traj[i]]
           /\ sims' = [i \in Lanes |-> IF done(i) THEN r[i].sim ELSE sims[i]]
           /\ IF failed = {} THEN pc' = "stop" /\ lane' = lane
              ELSE pc' = "raised" /\ lane' = first
    /\ UNCHANGED <<arb_vars, syn_vars, load_vars, cfg, eps, obs, gmaps, ended, just_ended, steps, base_t,
                   scanvp_cands, nav, srch>>

\* The loop of make_equiv_action_vln moves on to the next lane
next_lane == IF lane = batch_size THEN "stop" ELSE "act"

\* Line 981: the body of make_equiv_action_vln's loop for the lane at hand
MakeEquivActionVln ==
    /\ pc = "act"
    /\ cfg.search_target
    /\ LET i == lane
           action == nav[i].cpu_a_t
       IN  IF action = None
           THEN /\ pc' = next_lane /\ lane' = (IF lane = batch_size THEN lane ELSE lane + 1)
                /\ UNCHANGED <<traj, sims, srch>>
           ELSE IF within_reach(gmaps[i], obs[i], action)
           THEN LET r == resolve(gmaps[i], obs[i], traj[i], action, scanvp_cands, sims[i])
                IN  IF r.raised
                    THEN pc' = "raised" /\ UNCHANGED <<lane, traj, sims, srch>>
                    ELSE /\ traj' = [traj EXCEPT ![i] = r.path]
                         /\ sims' = [sims EXCEPT ![i] = r.sim]
                         /\ pc' = next_lane
                         /\ lane' = (IF lane = batch_size THEN lane ELSE lane + 1)
                         /\ UNCHANGED srch
           ELSE IF ~is_seen_node(action)
           \* gmaps[i].real_name[action]: KeyError
           THEN pc' = "raised" /\ UNCHANGED <<lane, traj, sims, srch>>
           ELSE /\ srch' = [idx |-> i, target |-> action, real_target |-> real_name(action),
                            ob |-> obs[i], start_step |-> steps[i], step |-> steps[i],
                            search_start_vp |-> obs[i]]
                /\ pc' = "search"
                /\ UNCHANGED <<lane, traj, sims>>
    /\ UNCHANGED <<arb_vars, syn_vars, load_vars, cfg, eps, obs, gmaps, ended, just_ended, steps, base_t,
                   scanvp_cands, nav>>

\* Lines 744-788 of search_rollout, the policy's index being choice
search_decide_unbounded(g, ob, choice) ==
    LET inp == nav_gmap_variable(ob, g, cfg.act_visited_nodes, cfg.enc_full_graph)
        vpids == nav_vpids(cfg, ob, g)
        il == cfg.feedback = "teacher"
        res == teacher_action_r4r_search(g, ob, vpids, FALSE, srch.real_target,
                                         nav_masks(cfg, ob, g), il, srch.step)
        a_t == IF il THEN res.a ELSE choice
        a_t_stop == IF cfg.feedback \in {"teacher", "sample"}
                    THEN ob.viewpoint = srch.real_target
                    ELSE a_t = 0 \/ graph_visited(g, srch.target)
        halt == a_t_stop \/ inp.no_vp_left
        index_error == ~halt /\ a_t \notin 0..(Len(vpids) - 1)
    IN  [nav_vpids |-> vpids,
         nav_targets |-> IF cfg.train_ml THEN Targets(res) ELSE NoTargets,
         a_t |-> a_t,
         cpu_a_t |-> IF halt \/ index_error THEN None ELSE vpids[a_t + 1],
         raised |-> (cfg.train_ml /\ res.raised) \/ index_error]

search_decide(g, ob, choice) ==
    LET inp == nav_gmap_variable(ob, g, cfg.act_visited_nodes, cfg.enc_full_graph)
        vpids == nav_vpids(cfg, ob, g)
        il == cfg.feedback = "teacher"
        res == teacher_action_r4r_search(g, ob, vpids, FALSE, srch.real_target,
                                         nav_masks(cfg, ob, g), il, srch.step)
        a_t == IF il THEN res.a ELSE choice
        a_t_stop == IF cfg.feedback \in {"teacher", "sample"}
                    THEN ob.viewpoint = srch.real_target
                    ELSE a_t = 0 \/ graph_visited(g, srch.target)
        halt == a_t_stop \/ inp.no_vp_left \/ srch.step = max_action_len - 1
        index_error == ~halt /\ a_t \notin 0..(Len(vpids) - 1)
    IN  [nav_vpids |-> vpids,
         nav_targets |-> IF cfg.train_ml THEN Targets(res) ELSE NoTargets,
         a_t |-> a_t,
         cpu_a_t |-> IF halt \/ index_error THEN None ELSE vpids[a_t + 1],
         raised |-> (cfg.train_ml /\ res.raised) \/ index_error]

\* Line 605: steps[i] == self.args.max_action_len - 1
out_of_steps_never(step) == FALSE

out_of_steps(step) == step = max_action_len - 1

\* Line 602: steps[i] = step
set_step_of_every_lane(all_steps, i, step) == [k \in DOMAIN all_steps |-> step]

set_step(all_steps, i, step) == [all_steps EXCEPT ![i] = step]

\* Line 805: step += 1
step_kept(step) == step

step_incremented(step) == step + 1

\* One iteration of the loop of search_rollout (lines 686-805); on the break,
\* lines 603-607 of make_equiv_action_vln
SearchRollout ==
    /\ pc = "search"
    /\ LET i == srch.idx
           ob == get_ob(eps[i], srch.ob)
           g1 == IF srch.step # srch.start_step
                 THEN [gmaps[i] EXCEPT !.node_step_ids = dict_set(@, ob.viewpoint, srch.step + 1)]
                 ELSE gmaps[i]
           inp == nav_gmap_variable(ob, g1, cfg.act_visited_nodes, cfg.enc_full_graph)
       IN  \E choice \in a_t_choices(inp, TRUE), score \in StopScores :
              LET g2 == [g1 EXCEPT !.node_stop_scores = set_stop_score(@, ob.viewpoint, score)]
                  d == search_decide(g2, ob, choice)
                  r == make_equiv_action_search(g2, ob.viewpoint, traj[i], d.cpu_a_t,
                                                scanvp_cands, sims[i])
                  new_ob == get_ob(eps[i], r.sim.viewpoint)
              IN  IF d.raised \/ r.raised
                  THEN /\ pc' = "raised"
                       /\ gmaps' = [gmaps EXCEPT ![i] = g2]
                       /\ UNCHANGED <<traj, sims, scanvp_cands, srch, steps, nav, just_ended,
                                      lane>>
                  ELSE /\ traj' = [traj EXCEPT ![i] = r.path]
                       /\ sims' = [sims EXCEPT ![i] = r.sim]
                       /\ scanvp_cands' = update_scanvp_cands(scanvp_cands, new_ob)
                       /\ gmaps' = [gmaps EXCEPT ![i] = update_graph(g2, new_ob)]
                       /\ IF d.cpu_a_t = None
                          THEN /\ srch' = NoSearch
                               /\ steps' = set_step(steps, i, srch.step)
                               /\ IF out_of_steps(srch.step)
                                  THEN /\ nav' = [nav EXCEPT ![i].cpu_a_t = None]
                                       /\ just_ended' = [just_ended EXCEPT ![i] = TRUE]
                                  ELSE UNCHANGED <<nav, just_ended>>
                               /\ pc' = next_lane
                               /\ lane' = (IF lane = batch_size THEN lane ELSE lane + 1)
                          ELSE /\ srch' = [srch EXCEPT !.ob = new_ob.viewpoint,
                                                   !.step = step_incremented(@)]
                               /\ pc' = "search"
                               /\ UNCHANGED <<steps, nav, just_ended, lane>>
    /\ UNCHANGED <<arb_vars, syn_vars, load_vars, cfg, eps, obs, ended, base_t>>

\* Lines 1008-1012: the first viewpoint holding the highest recorded stop score
RECURSIVE max_stop_score_ge(_, _, _, _)
max_stop_score_ge(scores, k, stop_node, stop_score) ==
    IF k > Len(scores) THEN stop_node
    ELSE IF stop_node = None \/ scores[k].stop >= stop_score
         THEN max_stop_score_ge(scores, k + 1, scores[k].vp, scores[k].stop)
         ELSE max_stop_score_ge(scores, k + 1, stop_node, stop_score)

RECURSIVE max_stop_score(_, _, _, _)
max_stop_score(scores, k, stop_node, stop_score) ==
    IF k > Len(scores) THEN stop_node
    ELSE IF stop_node = None \/ scores[k].stop > stop_score
         THEN max_stop_score(scores, k + 1, scores[k].vp, scores[k].stop)
         ELSE max_stop_score(scores, k + 1, stop_node, stop_score)

\* Lines 1006-1014 for one lane
determine_stop(g, vp, path) ==
    LET stop_node == max_stop_score(g.node_stop_scores, 1, None, 0)
    IN  IF stop_node # None /\ vp # stop_node
        THEN Append(path, graph_path(g, vp, stop_node))
        ELSE path

\* Line 1007: if (not ended[i]) and just_ended[i]
stop_is_determined(lane_ended, lane_just_ended) == ~lane_ended /\ lane_just_ended

\* Lines 985-1019, the seen-stop option off
DetermineStop ==
    /\ pc = "stop"
    /\ traj' = [i \in Lanes |->
                   IF stop_is_determined(ended[i], just_ended[i])
                   THEN determine_stop(gmaps[i], obs[i], traj[i])
                   ELSE traj[i]]
    /\ pc' = "observe"
    /\ UNCHANGED <<arb_vars, syn_vars, load_vars, cfg, eps, sims, obs, gmaps, ended, just_ended, steps, base_t,
                   scanvp_cands, nav, lane, srch>>

\* Lines 1021-1035
Observe ==
    /\ pc = "observe"
    /\ obs' = [i \in Lanes |-> sims[i].viewpoint]
    /\ scanvp_cands' = update_scanvp_cands_all(scanvp_cands, obs', 1)
    /\ gmaps' = [i \in Lanes |->
                    IF ended[i] THEN gmaps[i]
                    ELSE update_graph(gmaps[i], get_ob(eps[i], obs'[i]))]
    /\ ended' = [i \in Lanes |-> ended[i] \/ nav[i].cpu_a_t = None]
    /\ IF \A i \in Lanes : ended'[i]
       THEN pc' = "done" /\ UNCHANGED <<steps, base_t>>
       ELSE /\ pc' = "decide"
            /\ steps' = [i \in Lanes |-> steps[i] + 1]
            /\ base_t' = base_t + 1
    /\ UNCHANGED <<arb_vars, syn_vars, load_vars, cfg, eps, sims, traj, just_ended, nav, lane, srch>>

Next ==
    \/ Decide
    \/ MakeEquivAction
    \/ MakeEquivActionVln
    \/ SearchRollout
    \/ DetermineStop
    \/ Observe

Spec == Init /\ [][Next]_vars

-----------------------------------------------------------------------------
(* SpecLanes: the rollout of a batch of two lanes                           *)

\* Batches of two lanes: a short episode next to a longer one
PairBatches ==
    {<<e1, e2>> : e1 \in {ep \in Episodes : ep.gt_path = <<"B", "A">>},
                  e2 \in {ep \in Episodes : ep.gt_path \in {<<"A", "B", "D">>, <<"D", "B">>}}}

\* An episode whose agent stands on the last viewpoint of its path from the
\* start
AtGoal == [gt_path |-> <<"C">>, original_path |-> <<"C">>, endpoint |-> "C"]

\* Batches of two lanes: that episode next to the one that starts at an end
\* of the blocked edge, in either order
SearchPairBatches ==
    UNION {{<<AtGoal, ep>>, <<ep, AtGoal>>} : ep \in {e \in Episodes : e.gt_path = <<"D", "B">>}}

\* The rollouts of two lanes: teacher-forced with the search-target option
\* on and off, and sampled with it on
LaneRuns ==
    {r \in [cfg : Configs, eps : PairBatches \cup SearchPairBatches] :
        /\ default_options(r.cfg) /\ r.cfg.train_ml
        /\ \/ r.eps \in PairBatches /\ r.cfg.feedback = "teacher"
           \/ r.eps \in SearchPairBatches /\ r.cfg.feedback = "sample" /\ r.cfg.search_target}

SpecLanes == InitOf(LaneRuns) /\ [][Next]_vars

-----------------------------------------------------------------------------
(* SpecEpisodes: an agent whose rollout is called again and again, as the   *)
(* training and the evaluation loops do                                     *)

\* _update_scanvp_cands(obs) on the first observations of a batch
RECURSIVE update_scanvp_cands_batch(_, _, _)
update_scanvp_cands_batch(cache, batch, i) ==
    IF i > Len(batch) THEN cache
    ELSE update_scanvp_cands_batch(
             update_scanvp_cands(cache, get_ob(batch[i], batch[i].gt_path[1])), batch, i + 1)

\* self.scanvp_cands at the head of rollout: made in _build_model (line 38)
\* and not by rollout
scanvp_cands_emptied(cache) == EmptyDict

scanvp_cands_at_rollout(cache) == cache

\* Lines 810-828 and 965-966: rollout is called again, env.reset() serves a batch
NextRollout ==
    /\ pc = "done"
    /\ \E batch \in Batches :
          LET start == [i \in 1..Len(batch) |-> batch[i].gt_path[1]]
          IN  /\ eps' = batch
              /\ sims' = [i \in 1..Len(batch) |-> newEpisode(start[i], 0, 0)]
              /\ obs' = start
              /\ scanvp_cands' = update_scanvp_cands_batch(
                                     scanvp_cands_at_rollout(scanvp_cands), batch, 1)
              /\ gmaps' = [i \in 1..Len(batch) |->
                              update_graph(GraphMap(start[i]), get_ob(batch[i], start[i]))]
              /\ traj' = [i \in 1..Len(batch) |-> << <<start[i]>> >>]
              /\ ended' = [i \in 1..Len(batch) |-> FALSE]
              /\ just_ended' = [i \in 1..Len(batch) |-> FALSE]
              /\ steps' = [i \in 1..Len(batch) |-> 0]
              /\ nav' = [i \in 1..Len(batch) |-> NoDecision]
    /\ base_t' = 0
    /\ pc' = "decide"
    /\ lane' = 1
    /\ srch' = NoSearch
    /\ UNCHANGED <<arb_vars, syn_vars, load_vars, cfg>>

\* The agents followed over several rollouts: teacher-forced or greedy with
\* the loss computed, with the options of the training script and the
\* search-target option off
EpisodeRuns ==
    {r \in [cfg : Configs, eps : Batches] :
        /\ default_options(r.cfg) /\ r.cfg.train_ml /\ ~r.cfg.search_target
        /\ r.cfg.feedback \in {"teacher", "argmax"}}

EpisodesNext ==
    \/ Decide
    \/ MakeEquivAction
    \/ DetermineStop
    \/ Observe
    \/ NextRollout

SpecEpisodes == InitOf(EpisodeRuns) /\ [][EpisodesNext]_vars

-----------------------------------------------------------------------------
(* SpecSynth: Inpainting/block_edge.py.  One action per stage of the        *)
(* script:                                                                  *)
(*   NextPath     the head of the loop over a split's items: the duplicate  *)
(*                check and the combinations            (lines 65-81)       *)
(*   Combination  the body of the loop over combinations (lines 82-145)     *)
(*   EndPath      path_block_num                        (lines 147-148)     *)
(*   EndSplit     path_num, the next split              (lines 150-152)     *)
(*   Report       the statistics printed                (lines 153-162)     *)
(*   Dump         the output file                       (lines 182-183)     *)
(* The data set is one scan; one of its reference paths walks an edge       *)
(* twice, the others visit no viewpoint twice.  networkx is not modelled    *)
(* beyond what the script asks of it: has_path, shortest_path (fewest hops; *)
(* which of several it answers is left open by CHOOSE), neighbors.          *)

\* len(new_path) <= 15
max_new_path == 15

\* graphs[scan]: a corridor 1-2-...-16, a detour 2-17-3 and a chord 9-11
scan_edges == {{i, i + 1} : i \in 1..15} \cup {{2, 17}, {17, 3}, {9, 11}}

\* G.neighbors(v)
G_neighbors(G, v) == {w \in UNION G : w # v /\ {v, w} \in G}

RECURSIVE reachable(_, _)
reachable(G, S) ==
    LET T == S \cup UNION {G_neighbors(G, v) : v \in S}
    IN  IF T = S THEN S ELSE reachable(G, T)

\* nx.has_path(G, u, v)
has_path_always(G, u, v) == TRUE

has_path(G, u, v) == v \in reachable(G, {u})

\* The number of hops of a shortest route from the set front to v, -1 if none
RECURSIVE bfs(_, _, _, _, _)
bfs(G, front, seen, v, d) ==
    IF v \in front THEN d
    ELSE IF front = {} THEN 0 - 1
    ELSE bfs(G, UNION {G_neighbors(G, x) : x \in front} \ (seen \cup front),
             seen \cup front, v, d + 1)

hops(G, u, v) == bfs(G, {u}, {}, v, 0)

RECURSIVE route(_, _, _)
route(G, u, v) ==
    IF u = v THEN <<v>>
    ELSE LET z == CHOOSE n \in G_neighbors(G, u) : hops(G, n, v) = hops(G, u, v) - 1
         IN  <<u>> \o route(G, z, v)

\* nx.shortest_path(G, u, v): both ends included; NetworkXNoPath when there
\* is no route
shortest_path(G, u, v) ==
    IF hops(G, u, v) < 0 THEN [raised |-> TRUE, nodes |-> <<>>]
    ELSE [raised |-> FALSE, nodes |-> route(G, u, v)]

\* edges = [(path[i], path[i+1]) for i in range(len(path)-1)]
path_edges(path) == [i \in 1..(Len(path) - 1) |-> <<path[i], path[i + 1]>>]

\* list(combinations(range(lo, m + 1), n)), in the order itertools yields them
RECURSIVE idx_combs(_, _, _)
idx_combs(lo, m, n) ==
    IF n = 0 THEN << <<>> >>
    ELSE IF lo > m - n + 1 THEN <<>>
    ELSE LET rest == idx_combs(lo + 1, m, n - 1)
         IN  [k \in 1..Len(rest) |-> <<lo>> \o rest[k]] \o idx_combs(lo + 1, m, n)

\* combs = list(combinations(edges, args.nums))
combinations(edges, n) ==
    LET ic == idx_combs(1, Len(edges), n)
    IN  [k \in 1..Len(ic) |-> [j \in 1..n |-> edges[ic[k][j]]]]

\* Lines 83-87: the edges of comb are removed one after the other; flag falls
\* when the edge just removed has left its ends apart; remove_edge raises on
\* an edge the graph does not have
RECURSIVE remove_edges_last_test(_, _, _, _)
remove_edges_last_test(G, comb, k, flag) ==
    IF k > Len(comb) THEN [G |-> G, flag |-> flag, raised |-> FALSE]
    ELSE IF {comb[k][1], comb[k][2]} \notin G THEN [G |-> G, flag |-> flag, raised |-> TRUE]
    ELSE LET G1 == G \ {{comb[k][1], comb[k][2]}}
         IN  remove_edges_last_test(G1, comb, k + 1, has_path(G1, comb[k][1], comb[k][2]))

RECURSIVE remove_edges(_, _, _, _)
remove_edges(G, comb, k, flag) ==
    IF k > Len(comb) THEN [G |-> G, flag |-> flag, raised |-> FALSE]
    ELSE IF {comb[k][1], comb[k][2]} \notin G THEN [G |-> G, flag |-> flag, raised |-> TRUE]
    ELSE LET G1 == G \ {{comb[k][1], comb[k][2]}}
         IN  remove_edges(G1, comb, k + 1, flag /\ has_path(G1, comb[k][1], comb[k][2]))

\* Lines 107-112, in the order line 114 walks it: the longest tail of bypass
\* that holds no viewpoint of new_path
real_bypass(bypass, new_path) ==
    LET placed == {k \in 1..Len(bypass) : InSeq(bypass[k], new_path)}
        from == IF placed = {} THEN 1 ELSE 1 + CHOOSE k \in placed : \A j \in placed : j <= k
    IN  SubSeq(bypass, from, Len(bypass))

\* Lines 114-118: the frontier grows by the bypass and its neighbours, up to
\* the last viewpoint of the path
RECURSIVE grow_cands(_, _, _, _, _)
grow_cands(G, cand_vps, rb, k, last_vp) ==
    IF k > Len(rb) THEN cand_vps
    ELSE IF rb[k] = last_vp THEN cand_vps
    ELSE grow_cands(G, cand_vps \cup {rb[k]} \cup G_neighbors(G, rb[k]), rb, k + 1, last_vp)

\* Lines 95-118: the loop over the viewpoints of path, from the k-th on
RECURSIVE reduce_path_without_skip(_, _, _, _)
reduce_path_without_skip(G, path, k, r) ==
    IF k > Len(path) \/ r.raised THEN r
    ELSE LET vp == path[k]
         IN  IF Len(r.new_path) = 0 \/ vp \in r.cand_vps
             THEN reduce_path_without_skip(G, path, k + 1,
                      [r EXCEPT !.original_path = Append(@, vp),
                                !.new_path = Append(@, vp),
                                !.cand_vps = @ \cup {vp} \cup G_neighbors(G, vp)])
             ELSE LET sp == shortest_path(G, Last(r.new_path), vp)
                  IN  IF sp.raised
                      THEN [r EXCEPT !.original_path = Append(@, vp), !.raised = TRUE]
                      ELSE reduce_path_without_skip(G, path, k + 1,
                               [r EXCEPT !.original_path = Append(@, vp),
                                         !.queries = @ \cup {<<Last(r.new_path), vp>>},
                                         !.cand_vps = grow_cands(G, @,
                                             real_bypass(Tail(sp.nodes), r.new_path), 1,
                                             Last(path))])

RECURSIVE reduce_path(_, _, _, _)
reduce_path(G, path, k, r) ==
    IF k > Len(path) \/ r.raised THEN r
    ELSE LET vp == path[k]
         IN  IF InSeq(vp, r.new_path) THEN reduce_path(G, path, k + 1, r)
             ELSE IF Len(r.new_path) = 0 \/ vp \in r.cand_vps
             THEN reduce_path(G, path, k + 1,
                      [r EXCEPT !.original_path = Append(@, vp),
                                !.new_path = Append(@, vp),
                                !.cand_vps = @ \cup {vp} \cup G_neighbors(G, vp)])
             ELSE LET sp == shortest_path(G, Last(r.new_path), vp)
                  IN  IF sp.raised
                      THEN [r EXCEPT !.original_path = Append(@, vp), !.raised = TRUE]
                      ELSE reduce_path(G, path, k + 1,
                               [r EXCEPT !.original_path = Append(@, vp),
                                         !.queries = @ \cup {<<Last(r.new_path), vp>>},
                                         !.cand_vps = grow_cands(G, @,
                                             real_bypass(Tail(sp.nodes), r.new_path), 1,
                                             Last(path))])

\* path.index(v), 0-based
index(path, v) == (CHOOSE k \in 1..Len(path) : path[k] = v /\ \A j \in 1..(k - 1) : path[j] # v) - 1

\* Lines 120-125: the loop over the edges of comb, from the k-th on
RECURSIVE substitute_in_place(_, _, _, _, _)
substitute_in_place(G, path, comb, k, d) ==
    IF k > Len(comb) \/ d.raised THEN d
    ELSE LET sp == shortest_path(G, comb[k][1], comb[k][2])
             edge_idx == index(path, comb[k][1]) + d.adjustment
         IN  IF sp.raised THEN [d EXCEPT !.raised = TRUE]
             ELSE substitute_in_place(G, path, comb, k + 1,
                      [d EXCEPT !.detailed_path = SubSeq(@, 1, edge_idx) \o sp.nodes
                                                  \o SubSeq(@, edge_idx + 3, Len(@)),
                                !.adjustment = @,
                                !.queries = @ \cup {<<comb[k][1], comb[k][2]>>}])

RECURSIVE substitute(_, _, _, _, _)
substitute(G, path, comb, k, d) ==
    IF k > Len(comb) \/ d.raised THEN d
    ELSE LET sp == shortest_path(G, comb[k][1], comb[k][2])
             edge_idx == index(path, comb[k][1]) + d.adjustment
         IN  IF sp.raised THEN [d EXCEPT !.raised = TRUE]
             ELSE substitute(G, path, comb, k + 1,
                      [d EXCEPT !.detailed_path = SubSeq(@, 1, edge_idx) \o sp.nodes
                                                  \o SubSeq(@, edge_idx + 3, Len(@)),
                                !.adjustment = @ + Len(sp.nodes) - 2,
                                !.queries = @ \cup {<<comb[k][1], comb[k][2]>>}])

\* len(new_path) <= 15
within_cap_lt(new_path) == Len(new_path) < max_new_path

within_cap(new_path) == Len(new_path) <= max_new_path

\* len(new_path) != len(set(new_path))
has_duplicates(new_path) == Len(new_path) # Cardinality(Range(new_path))

\* Lines 83-129 for one combination: what it computes and whether it is kept
combination(G0, path, comb) ==
    LET c == remove_edges(G0, comb, 1, TRUE)
        r == reduce_path(c.G, path, 1,
                 [new_path |-> <<>>, original_path |-> <<>>, cand_vps |-> {},
                  queries |-> {}, raised |-> FALSE])
        d == substitute(c.G, path, comb, 1,
                 [detailed_path |-> path, adjustment |-> 0, queries |-> {}, raised |-> FALSE])
    IN  IF c.raised \/ ~c.flag
        THEN [tried |-> TRUE, comb |-> comb, path |-> path, G |-> c.G, flag |-> FALSE,
              raised |-> c.raised,
              new_path |-> <<>>, original_path |-> <<>>, detailed_path |-> <<>>,
              queries |-> {}, kept |-> FALSE]
        ELSE [tried |-> TRUE, comb |-> comb, path |-> path, G |-> c.G, flag |-> TRUE,
              raised |-> r.raised \/ d.raised,
              new_path |-> r.new_path, original_path |-> r.original_path,
              detailed_path |-> d.detailed_path,
              queries |-> r.queries \cup d.queries,
              kept |-> ~r.raised /\ ~d.raised /\ within_cap(r.new_path)]

\* The items of the annotation files: x['path'], x['path_id']
Items ==
    { [path |-> <<1, 2, 3, 4>>, path_id |-> 1],
      [path |-> <<5, 6, 7, 8>>, path_id |-> 2],
      [path |-> [k \in 1..16 |-> k], path_id |-> 3],
      [path |-> <<8, 9, 10, 11, 12>>, path_id |-> 1],
      [path |-> <<1, 2, 3, 2, 3, 4>>, path_id |-> 4] }

\* splits
splits == <<"train", "val_seen", "val_unseen">>

MaxItems == 2

SplitData == {<<>>} \cup {<<x>> : x \in Items} \cup {<<x, y>> : x, y \in Items}

\* The annotation files of a run: at most MaxItems items over the splits
Datasets ==
    {d \in [1..Len(splits) -> SplitData] :
        Len(d[1]) + Len(d[2]) + Len(d[3]) <= MaxItems}

\* --nums
Nums == {1, 2}

\* block_list[scan][path_id].append(rec); reading a missing key of the
\* defaultdict leaves an empty list under it
dict_prepend(d, k, rec) ==
    dict_set(d, k, IF k \in DOMAIN d THEN <<rec>> \o d[k] ELSE <<rec>>)

dict_append(d, k, rec) ==
    dict_set(d, k, IF k \in DOMAIN d THEN Append(d[k], rec) ELSE <<rec>>)

dict_touch(d, k) == IF k \in DOMAIN d THEN d ELSE dict_set(d, k, <<>>)

\* No combination tried yet; no file written yet
NoComb == [tried |-> FALSE]

NotWritten == [written |-> FALSE]

SynInit ==
    /\ arb_in = None /\ arb_out = None
    /\ RollIdle
    /\ LoadIdle
    /\ args_nums \in Nums
    /\ data \in Datasets
    /\ split = 1 /\ x_idx = 1
    /\ combs = <<>>
    /\ graph_G = {} /\ backup_G = {}
    /\ paths = <<>>
    /\ block_list = EmptyDict
    /\ counters = [path_num |-> 0, path_block_num |-> 0, duplicate_num |-> 0]
    /\ lengths = [original |-> <<>>, modified |-> <<>>]
    /\ comb_out = NoComb
    /\ syn_pc = "path"
    /\ output = NotWritten

\* The item the loop of line 65 is at
x == data[split][x_idx]

\* Line 70: path_id in paths
path_id_never_in_paths(path_id, ps) == FALSE

path_id_in_paths(path_id, ps) == InSeq(path_id, ps)

\* Lines 65-81
NextPath ==
    /\ syn_pc = "path"
    /\ x_idx <= Len(data[split])
    /\ IF path_id_in_paths(x.path_id, paths)
       THEN /\ syn_pc' = "exited"
            /\ UNCHANGED <<paths, lengths, combs, graph_G, backup_G>>
       ELSE /\ paths' = Append(paths, x.path_id)
            /\ graph_G' = scan_edges
            /\ backup_G' = graph_G'
            /\ lengths' = [lengths EXCEPT !.original = Append(@, Len(x.path))]
            /\ combs' = combinations(path_edges(x.path), args_nums)
            /\ syn_pc' = "comb"
    /\ UNCHANGED <<arb_vars, roll_vars, load_vars, args_nums, data, split, x_idx, block_list, counters,
                   comb_out, output>>

\* Line 145: G = backup_G.copy()
left_as_it_is(G, backup) == G

restored(G, backup) == backup

\* Lines 82-145, for the first combination not yet tried
Combination ==
    /\ syn_pc = "comb"
    /\ combs # <<>>
    /\ LET out == combination(graph_G, x.path, Head(combs))
       IN  /\ comb_out' = out
           /\ IF out.raised
              THEN /\ syn_pc' = "raised"
                   /\ graph_G' = out.G
                   /\ UNCHANGED <<combs, block_list, lengths, counters>>
              ELSE /\ combs' = Tail(combs)
                   /\ syn_pc' = "comb"
                   /\ graph_G' = restored(out.G, backup_G)
                   /\ IF out.kept
                      THEN /\ block_list' = dict_append(block_list, x.path_id,
                                  [comb |-> out.comb, new_path |-> out.new_path,
                                   original_path |-> out.original_path,
                                   detailed_path |-> out.detailed_path])
                           /\ lengths' = [lengths EXCEPT
                                             !.modified = Append(@, Len(out.detailed_path))]
                           /\ counters' = [counters EXCEPT !.duplicate_num =
                                  IF has_duplicates(out.new_path) THEN @ + 1 ELSE @]
                      ELSE UNCHANGED <<block_list, lengths, counters>>
    /\ UNCHANGED <<arb_vars, roll_vars, load_vars, args_nums, data, split, x_idx, backup_G, paths,
                   output>>

\* Lines 147-148
EndPath ==
    /\ syn_pc = "comb"
    /\ combs = <<>>
    /\ block_list' = dict_touch(block_list, x.path_id)
    /\ counters' = [counters EXCEPT !.path_block_num =
                       IF Len(block_list'[x.path_id]) > 0 THEN @ + 1 ELSE @]
    /\ x_idx' = x_idx + 1
    /\ syn_pc' = "path"
    /\ UNCHANGED <<arb_vars, roll_vars, load_vars, args_nums, data, split, combs, graph_G, backup_G,
                   paths, lengths, comb_out, output>>

\* Lines 150-152, and the next split
EndSplit ==
    /\ syn_pc = "path"
    /\ x_idx > Len(data[split])
    /\ counters' = [counters EXCEPT !.path_num = @ + Len(data[split])]
    /\ IF split < Len(splits)
       THEN split' = split + 1 /\ x_idx' = 1 /\ syn_pc' = "path"
       ELSE syn_pc' = "report" /\ UNCHANGED <<split, x_idx>>
    /\ UNCHANGED <<arb_vars, roll_vars, load_vars, args_nums, data, combs, graph_G, backup_G, paths,
                   block_list, lengths, comb_out, output>>

\* Lines 153-162: np.min and the percentage of line 161 raise on an empty list
Report ==
    /\ syn_pc = "report"
    /\ syn_pc' = IF lengths.original = <<>> \/ lengths.modified = <<>>
                 THEN "raised" ELSE "dump"
    /\ UNCHANGED <<arb_vars, roll_vars, load_vars, args_nums, data, split, x_idx, combs, graph_G,
                   backup_G, paths, block_list, counters, lengths, comb_out, output>>

\* Lines 182-183
Dump ==
    /\ syn_pc = "dump"
    /\ output' = [written |-> TRUE, block_list |-> block_list]
    /\ syn_pc' = "done"
    /\ UNCHANGED <<arb_vars, roll_vars, load_vars, args_nums, data, split, x_idx, combs, graph_G,
                   backup_G, paths, block_list, counters, lengths, comb_out>>

SynNext ==
    \/ NextPath
    \/ Combination
    \/ EndPath
    \/ EndSplit
    \/ Report
    \/ Dump

SpecSynth == SynInit /\ [][SynNext]_vars

-----------------------------------------------------------------------------
(* load_nav_graphs of block_edge.py, for one scan (SpecLoad) *)

\* The positions of the records of a connectivity file; a record's image_id
\* is taken to be its position
conn_ids == {1, 2, 3}

\* Most unobstructed flags set in a connectivity file
MaxUnobstructed == 4

\* The connectivity files: item['included'], item['unobstructed'][j]
ConnFiles ==
    LET flags == {U \in SUBSET (conn_ids \X conn_ids) : Cardinality(U) <= MaxUnobstructed}
    IN  {[i \in conn_ids |-> [included |-> i \in inc,
                              unobstructed |-> [j \in conn_ids |-> <<i, j>> \in U]]]
            : inc \in SUBSET conn_ids, U \in flags}

\* Lines 36-41 for item i, from the j-th flag on: the assert of line 40 is
\* met before the edge is added
RECURSIVE connect_unchecked(_, _, _, _)
connect_unchecked(cdata, i, j, G) ==
    IF j \notin conn_ids THEN [G |-> G, raised |-> FALSE]
    ELSE IF cdata[i].unobstructed[j] /\ cdata[j].included
         THEN connect_unchecked(cdata, i, j + 1, G \cup {{i, j}})
         ELSE connect_unchecked(cdata, i, j + 1, G)

RECURSIVE connect(_, _, _, _)
connect(cdata, i, j, G) ==
    IF j \notin conn_ids THEN [G |-> G, raised |-> FALSE]
    ELSE IF cdata[i].unobstructed[j] /\ cdata[j].included
         THEN IF ~cdata[j].unobstructed[i]
              THEN [G |-> G, raised |-> TRUE]
              ELSE connect(cdata, i, j + 1, G \cup {{i, j}})
         ELSE connect(cdata, i, j + 1, G)

LoadInit ==
    /\ arb_in = None /\ arb_out = None
    /\ RollIdle
    /\ SynIdle
    /\ conn_data \in ConnFiles
    /\ ld_i = 1
    /\ ld_G = {}
    /\ ld_pc = "load"

\* Lines 34-41, for one item of the file
LoadItem ==
    /\ ld_pc = "load"
    /\ ld_i \in conn_ids
    /\ IF conn_data[ld_i].included
       THEN LET r == connect(conn_data, ld_i, 1, ld_G)
            IN  /\ ld_G' = r.G
                /\ IF r.raised
                   THEN ld_pc' = "raised" /\ UNCHANGED ld_i
                   ELSE ld_i' = ld_i + 1 /\ UNCHANGED ld_pc
       ELSE ld_i' = ld_i + 1 /\ UNCHANGED <<ld_G, ld_pc>>
    /\ UNCHANGED <<arb_vars, roll_vars, syn_vars, conn_data>>

\* Lines 42-44: graphs[scan] = G
LoadDone ==
    /\ ld_pc = "load"
    /\ ld_i \notin conn_ids
    /\ ld_pc' = "done"
    /\ UNCHANGED <<arb_vars, roll_vars, syn_vars, conn_data, ld_i, ld_G>>

LoadNext ==
    \/ LoadItem
    \/ LoadDone

SpecLoad == LoadInit /\ [][LoadNext]_vars

-----------------------------------------------------------------------------
(* Properties of the teacher actions (SpecArbiter) *)

ArbCur == arb_in.viewpoint

ArbGoal == Last(arb_in.ep.gt_path)

\* The call made was one of fns, for a lane that has not ended
Applied(fns) == arb_out.fn \in fns /\ ~arb_out.ended

ScoreBased(fns) == Applied(fns) /\ ~arb_out.imitation_learning

Imitation(fns) == Applied(fns) /\ arb_out.imitation_learning

\* 1-based positions of the candidates after the stop entry
CandPos == 2..Len(arb_out.vpids)

MaskedAt(k) == arb_out.visited_masks.given /\ arb_out.visited_masks.m[k]

FarAt(k) == graph_distance(arb_in.gmap, ArbCur, arb_out.vpids[k]) >= sentinel

\* The position the returned index designates
Chosen == arb_out.res.a + 1

\* C1: shortest-path objective.  For a lane that has not ended and is not at
\* the goal, _teacher_action (goal: the last viewpoint of the reference path)
\* and _teacher_action_r4r_search (goal: its target) return the index j > 0 of
\* an unmasked candidate minimising distance(candidate, goal) +
\* distance(current, candidate), the smallest such index on ties.  The
\* candidates ranked are the unmasked ones the distance table knows.
C1_Goal == IF arb_out.fn = "teacher_action" THEN ArbGoal ELSE arb_out.target

C1_Ranked == {k \in CandPos : ~MaskedAt(k) /\ arb_out.vpids[k] \in Vps}

C1_Score(k) ==
    shortest_distances[arb_out.vpids[k]][C1_Goal] + shortest_distances[ArbCur][arb_out.vpids[k]]

C1_ShortestPathObjective ==
    (/\ ScoreBased({"teacher_action", "teacher_action_r4r_search"})
     /\ ArbCur # C1_Goal
     /\ C1_Ranked # {})
    => /\ ~arb_out.res.raised
       /\ Chosen \in C1_Ranked
       /\ \A k \in C1_Ranked :
             /\ C1_Score(Chosen) <= C1_Score(k)
             /\ C1_Score(k) = C1_Score(Chosen) => Chosen <= k

\* The scenario of the specification: at A, candidates [stop, B, C], goal D,
\* scores 7 and 12, index 1 returned
C1_Witness ==
    /\ ScoreBased({"teacher_action"})
    /\ ArbCur = "A" /\ ArbGoal = "D"
    /\ arb_out.vpids = <<None, "B", "C">>
    /\ C1_Score(2) = 7 /\ C1_Score(3) = 12
    /\ arb_out.res = Ret(1)

\* C2: for a lane that has not ended, the score-based arbiter returns the
\* stop index 0 whenever the current viewpoint is the last viewpoint of the
\* reference path, under the spl and the ndtw objective and whatever the
\* candidate list and the visited mask hold.
C2_StopAtGoal ==
    (ScoreBased({"teacher_action_r4r", "teacher_action_r4r_vln"}) /\ ArbCur = ArbGoal)
    => arb_out.res = Ret(0)

\* At the goal with an unvisited, unmasked candidate on the list
C2_Witness ==
    /\ ScoreBased({"teacher_action_r4r"})
    /\ arb_out.expert_policy = "ndtw"
    /\ ArbCur = ArbGoal
    /\ \E k \in CandPos : ~MaskedAt(k) /\ ~FarAt(k)
    /\ arb_out.res = Ret(0)

\* C3 as stated: whenever a visited mask is supplied and an unvisited
\* candidate exists, the index returned never designates a candidate whose
\* mask entry is set.
C3_Returned(fns) ==
    /\ Applied(fns)
    /\ arb_out.visited_masks.given
    /\ \E k \in CandPos : ~MaskedAt(k)
    /\ ~arb_out.res.raised
    /\ arb_out.res.a >= 1

C3_NeverVisited_AsStated ==
    C3_Returned({"teacher_action_r4r", "teacher_action_r4r_vln"}) => ~MaskedAt(Chosen)

\* C3 amended: the same, for the score-based branch of every teacher action;
\* the imitation-learning branch returns the next viewpoint of the reference
\* path whether or not it is masked.
C3_NeverVisited ==
    (/\ C3_Returned({"teacher_action", "teacher_action_r4r", "teacher_action_r4r_vln",
                     "teacher_action_r4r_search"})
     /\ ~arb_out.imitation_learning)
    => ~MaskedAt(Chosen)

\* A masked and an unmasked candidate on the list, a candidate chosen
C3_Witness ==
    /\ C3_Returned({"teacher_action_r4r"})
    /\ ~arb_out.imitation_learning
    /\ \E k \in CandPos : MaskedAt(k)
    /\ ~MaskedAt(Chosen)

\* C4 as stated: in every teacher action and under every objective, a
\* candidate at map distance >= 1e7 from the current viewpoint is skipped and
\* is never the index returned.
C4_Variants ==
    {"teacher_action", "teacher_action_r4r", "teacher_action_r4r_vln", "teacher_action_r4r_search"}

C4_SkipsUnreachable_AsStated ==
    Applied(C4_Variants)
    => (~arb_out.res.raised /\ arb_out.res.a >= 1 => ~FarAt(Chosen))

\* C4 amended: the score-based branches of _teacher_action_r4r and
\* _teacher_action_r4r_search skip such a candidate (no table lookup is made
\* for it) and never return it; _teacher_action and _teacher_action_r4r_vln
\* make no reachability test.
C4_SkipsUnreachable ==
    ScoreBased({"teacher_action_r4r", "teacher_action_r4r_search"})
    => /\ ~arb_out.res.raised
       /\ arb_out.res.a >= 1 => ~FarAt(Chosen)

\* An unmasked unreachable candidate on the list, a reachable one chosen
C4_Witness ==
    /\ ScoreBased({"teacher_action_r4r"})
    /\ \E k \in CandPos : FarAt(k) /\ ~MaskedAt(k)
    /\ arb_out.res.a >= 1
    /\ ~FarAt(Chosen)

\* C5: for a lane that has not ended and is not at the goal, the score-based
\* _teacher_action and _teacher_action_r4r return args.ignoreid exactly when
\* no candidate is legal (every index > 0 is masked as visited or, in
\* _teacher_action_r4r, skipped as unreachable); a value is returned, no
\* exception raised.
C5_Legal ==
    {k \in CandPos : ~MaskedAt(k) /\ (arb_out.fn = "teacher_action_r4r" => ~FarAt(k))}

C7_Next ==
    IF arb_out.fn = "teacher_action_r4r_vln"
    THEN arb_in.ep.original_path[arb_out.base_t + 2]
    ELSE arb_in.ep.gt_path[arb_out.t + 2]

C7_ImitationFollowsReference ==
    (/\ Imitation({"teacher_action_r4r", "teacher_action_r4r_vln", "teacher_action_r4r_search"})
     /\ ~arb_out.res.raised)
    => IF arb_out.t = Len(arb_in.ep.gt_path) - 1
       THEN arb_out.res.a = 0
       ELSE /\ arb_out.res.a >= 1
            /\ Chosen \in CandPos
            /\ arb_out.vpids[Chosen] = C7_Next
            /\ \A k \in 1..(Chosen - 1) : arb_out.vpids[k] # C7_Next

-----------------------------------------------------------------------------
(* Properties of the rollout (Spec) *)

\* The teacher action has reported the ignore marker for lane i in the
\* iteration under way (nav is overwritten by the next Decide)
IgnoreReported(i) == nav[i].nav_targets = Targets(Ret(ignoreid))

\* C6: when the teacher action reports args.ignoreid for a lane that has not
\* ended, the lane's resolved action cpu_a_t is None and the lane is marked
\* just ended; no exception is raised for the lane, and once the iteration's
\* last stage has run the lane has ended.
C6_IgnoreIsForcedStop ==
    \A i \in Lanes :
        IgnoreReported(i) =>
            CASE pc \in {"decide", "done"} -> ended[i]
              [] pc = "raised" -> ended[i] \/ lane # i
              [] OTHER -> ended[i] \/ (nav[i].cpu_a_t = None /\ just_ended[i])

\* A lane away from its goal, steps left, every unvisited node a surrogate:
\* the marker is reported and the lane is stopped
C6_Witness ==
    \E i \in Lanes :
        /\ pc = "observe"
        /\ ~ended[i]
        /\ IgnoreReported(i)
        /\ obs[i] # Last(eps[i].gt_path)
        /\ steps[i] < max_action_len - 1
        /\ nav[i].a_t # 0
        /\ nav[i].cpu_a_t = None

\* Every consecutive pair of seq is an edge of the map g
IsWalk(g, seq) == \A k \in 1..(Len(seq) - 1) : {seq[k], seq[k + 1]} \in g.edges

\* The step resolves a non-null target of lane i
Resolves(i) == pc \in {"act", "search"} /\ traj'[i] # traj[i]

NewSegment(i) == Last(traj'[i])

C8_FlattenedWalk ==
    \A i \in Lanes :
        ~just_ended[i]
        => /\ flatten(traj[i])[1] = eps[i].gt_path[1]
           /\ Last(flatten(traj[i])) = sims[i].viewpoint
           /\ IsWalk(gmaps[i], flatten(traj[i]))

C9_Pose ==
    [][\A i \in Lanes :
          (pc \in {"act", "search"} /\ sims'[i] # sims[i])
          => LET target == sims'[i].viewpoint
                 seg == NewSegment(i)
                 p == IF Len(seg) = 1 THEN sims[i].viewpoint ELSE seg[Len(seg) - 1]
             IN  /\ p \in DOMAIN scanvp_cands
                 /\ target \in DOMAIN scanvp_cands[p]
                 /\ scanvp_cands[p][target] \in 0..35
                 /\ sims'[i].heading = (scanvp_cands[p][target] % 12) * 30
                 /\ sims'[i].elevation = ((scanvp_cands[p][target] \div 12) - 1) * 30
                 /\ sims'[i].heading \in {30 * h : h \in 0..11}
                 /\ sims'[i].elevation \in {0 - 30, 0, 30}]_vars

\* A two-hop target resolved, the pose set from the direction of the last hop
C9_Witness ==
    \E i \in Lanes :
        /\ pc \in {"stop", "observe"}
        /\ nav[i].cpu_a_t = sims[i].viewpoint
        /\ Len(Last(traj[i])) = 2
        /\ sims[i].heading = (pointId(Last(traj[i])[1], sims[i].viewpoint) % 12) * 30
        /\ sims[i].heading # (pointId(obs[i], sims[i].viewpoint) % 12) * 30

\* C10: in search-target mode, for a non-null chosen target, search_rollout is
\* entered exactly when the map's distance from the current viewpoint to the
\* target is >= 1e7; below it the target is traversed directly and no search
\* runs.
C10_SearchIffFar ==
    [][(pc = "act" /\ cfg.search_target /\ nav[lane].cpu_a_t # None)
       => IF graph_distance(gmaps[lane], obs[lane], nav[lane].cpu_a_t) >= sentinel
          THEN /\ pc' = "search"
               /\ srch'.idx = lane
               /\ srch'.target = nav[lane].cpu_a_t
               /\ traj' = traj /\ sims' = sims
          ELSE /\ pc' \in {"act", "stop"}
               /\ srch' = NoSearch
               /\ traj'[lane] = Append(traj[lane],
                                       graph_path(gmaps[lane], obs[lane], nav[lane].cpu_a_t))
               /\ sims'[lane].viewpoint = nav[lane].cpu_a_t]_vars

\* The search runs for a surrogate the map does not reach
C10_Witness ==
    /\ pc = "search"
    /\ cfg.search_target
    /\ srch.step = srch.start_step
    /\ srch.target = nav[srch.idx].cpu_a_t
    /\ graph_distance(gmaps[srch.idx], obs[srch.idx], srch.target) >= sentinel

SearchAtTarget == srch.ob = srch.real_target

SearchBudgetExhausted == srch.step = max_action_len - 1

SearchNoVpLeft ==
    nav_gmap_variable(get_ob(eps[srch.idx], srch.ob), gmaps[srch.idx],
                      cfg.act_visited_nodes, cfg.enc_full_graph).no_vp_left

\* The iteration of the search loop at hand is its last
SearchBreaks == pc = "search" /\ pc' \notin {"search", "raised"}

C13_ExhaustedSearchEnds ==
    [][\A i \in Lanes :
          /\ (SearchBreaks /\ srch.idx = i /\ steps'[i] = max_action_len - 1)
             => /\ nav'[i].cpu_a_t = None
                /\ just_ended'[i]
          /\ (/\ pc \in {"stop", "observe"} /\ cfg.search_target
              /\ steps[i] = max_action_len - 1 /\ ~ended[i])
             => /\ nav[i].cpu_a_t = None
                /\ just_ended[i]
                /\ pc' # "raised"
                /\ pc = "observe" => ended'[i]]_vars

\* A search that began with steps to spare has used them up: the lane, which
\* had chosen a seen node, stops where the search has taken it
C13_Witness ==
    \E i \in Lanes :
        /\ pc = "stop"
        /\ cfg.search_target
        /\ ~ended[i]
        /\ steps[i] = max_action_len - 1
        /\ nav[i].a_t > 0
        /\ is_seen_node(nav[i].nav_vpids[nav[i].a_t + 1])
        /\ nav[i].cpu_a_t = None
        /\ just_ended[i]
        /\ sims[i].viewpoint # obs[i]

\* Index 0 of the list L is the stop target and no other index is
StopFirst(L) == L # <<>> /\ L[1] = None /\ \A k \in 2..Len(L) : L[k] # None

\* C23: in the global-map list and in the local view list, as rollout and
\* search_rollout build them, index 0 holds None and every other index holds
\* a viewpoint id; an a_t of 0 leaves None as the lane's action, in rollout
\* and in search_rollout, whether or not the stop flag a_t_stop is set.
C23_IndexZeroIsStop ==
    /\ \A i \in Lanes :
          /\ StopFirst(nav_gmap_variable(lane_ob(i), gmaps[i], cfg.act_visited_nodes,
                                         cfg.enc_full_graph).gmap_vpids)
          /\ StopFirst(nav_vp_variable(lane_ob(i)))
          /\ StopFirst(nav[i].nav_vpids)
          /\ (pc = "act" /\ nav[i].a_t = 0) => nav[i].cpu_a_t = None
    /\ pc = "search"
       => LET ob == get_ob(eps[srch.idx], srch.ob)
              g == gmaps[srch.idx]
          IN  /\ StopFirst(nav_gmap_variable(ob, g, cfg.act_visited_nodes,
                                             cfg.enc_full_graph).gmap_vpids)
              /\ StopFirst(nav_vp_variable(ob))
              /\ \A choice \in 0..(Cardinality(Vps) + Cardinality(SeenNodes)) :
                    LET d == search_decide(g, ob, choice)
                    IN  /\ StopFirst(d.nav_vpids)
                        /\ d.a_t = 0 => d.cpu_a_t = None

\* Index 0 is sampled away from the goal, with steps left and viewpoints
\* left to visit: the action is None by the list alone
C23_Witness ==
    /\ pc = "act"
    /\ cfg.feedback = "sample"
    /\ nav[1].a_t = 0 /\ nav[1].cpu_a_t = None
    /\ ~ended[1] /\ obs[1] # Last(eps[1].gt_path)
    /\ steps[1] < max_action_len - 1
    /\ Len(nav[1].nav_vpids) > 1
    /\ ~lane_inputs(1).no_vp_left

\* C25: search_rollout, entered with start_step <= max_action_len - 1, comes
\* to an end whatever the policy chooses: its step counter stays between
\* start_step and max_action_len - 1, an iteration that is followed by
\* another one raises it by one and no iteration follows the one made at
\* max_action_len - 1, so that the loop makes at most
\* max_action_len - start_step iterations; the counter it returns lies
\* between start_step and max_action_len - 1.
C25_SearchTerminates ==
    /\ [](pc = "search"
          => /\ srch.start_step <= max_action_len - 1
             /\ srch.start_step <= srch.step /\ srch.step <= max_action_len - 1
             /\ srch.step - srch.start_step + 1 <= max_action_len - srch.start_step)
    /\ [][(pc = "search" /\ pc' = "search")
          => /\ srch'.step = srch.step + 1
             /\ srch'.start_step = srch.start_step /\ srch'.idx = srch.idx]_vars
    /\ [][SearchBreaks
          => /\ srch.start_step <= steps'[srch.idx]
             /\ steps'[srch.idx] <= max_action_len - 1]_vars
    /\ [][(pc = "search" /\ srch.step = max_action_len - 1) => pc' # "search"]_vars

\* A search that has gone on for two iterations and returns on its budget
C25_Witness ==
    /\ pc = "search"
    /\ srch.step >= srch.start_step + 2
    /\ srch.step = max_action_len - 1
    /\ ~SearchAtTarget

\* C26: where rollout prepares the actions, the step counter of a lane that
\* has not ended is at most max_action_len - 1, whatever the searches have
\* added to it; a lane whose counter is max_action_len - 1 is ended by the
\* end of that iteration; the counters never fall behind the count of
\* iterations, so the loop makes at most max_action_len iterations.
C26_RolloutBounded ==
    /\ [](\A i \in Lanes :
            /\ (pc \in {"decide", "act"} /\ ~ended[i]) => steps[i] <= max_action_len - 1
            /\ steps[i] >= base_t)
    /\ [](base_t <= max_action_len - 1)
    /\ [][pc = "observe"
          => /\ \A i \in Lanes : steps[i] >= max_action_len - 1 => ended'[i]
             /\ pc' = "decide" => base_t' = base_t + 1]_vars
    /\ [][(pc = "decide" /\ pc' # "raised")
          => \A i \in Lanes : steps[i] = max_action_len - 1
                => nav'[i].cpu_a_t = None /\ just_ended'[i]]_vars

\* A rollout ended by the budget before its last iteration: a search has
\* taken the steps
C26_Witness ==
    /\ pc = "done"
    /\ steps[1] = max_action_len - 1
    /\ base_t < steps[1]
    /\ obs[1] # Last(eps[1].gt_path)

\* A rollout that has made max_action_len iterations
C26_WitnessAllIterations ==
    /\ pc = "done"
    /\ base_t = max_action_len - 1
    /\ ~cfg.search_target

-----------------------------------------------------------------------------
(* Properties of an agent over several rollouts (SpecEpisodes) *)

\* The viewpoints observed in the rollout that is running
ObservedNow == UNION {gmaps[i].visited \cup {obs[i]} : i \in Lanes}

\* Every entry of the cache c is in the cache d, with the same pointId
\* unless d holds it for a viewpoint of vps
CacheKept(c, d, vps) ==
    \A vp \in DOMAIN c :
       /\ vp \in DOMAIN d
       /\ \A w \in DOMAIN c[vp] :
             w \in DOMAIN d[vp] /\ (vp \notin vps => d[vp][w] = c[vp][w])

\* C24, as stated: the pose cache holds entries of the viewpoints observed in
\* the running episode only.
C24_NothingCarried_AsStated == DOMAIN scanvp_cands \subseteq ObservedNow

\* C24, amended: a call of rollout makes the maps, the trajectories, the
\* step counters and the ended flags anew, from the batch alone, and keeps
\* the pose cache: every entry written in an earlier episode is still there,
\* and the entries of the viewpoints observed in the running episode are
\* there with all their candidates.
C24_OnlyCacheCarried ==
    /\ [][CacheKept(scanvp_cands, scanvp_cands', ObservedNow')]_vars
    /\ [](\A vp \in ObservedNow :
            /\ vp \in DOMAIN scanvp_cands
            /\ \A w \in Range(candidate(vp)) :
                  w \in DOMAIN scanvp_cands[vp] /\ scanvp_cands[vp][w] = pointId(vp, w))
    /\ [][pc = "done"
          => /\ \A i \in 1..Len(eps') :
                   /\ gmaps'[i].visited = {eps'[i].gt_path[1]}
                   /\ gmaps'[i].node_stop_scores = <<>>
                   /\ traj'[i] = << <<eps'[i].gt_path[1]>> >>
                   /\ steps'[i] = 0 /\ ~ended'[i] /\ ~just_ended'[i]
             /\ base_t' = 0 /\ cfg' = cfg]_vars

\* A later rollout whose cache holds a viewpoint it has not observed
C24_Witness ==
    /\ pc = "decide" /\ base_t = 0
    /\ eps[1].gt_path = <<"B", "A">>
    /\ "D" \in DOMAIN scanvp_cands
    /\ ObservedNow = {"B"}

-----------------------------------------------------------------------------
(* Properties of the synthesizer (SpecSynth) *)

\* The graph with every edge of comb removed
Residual(comb) == scan_edges \ {{comb[k][1], comb[k][2]} : k \in 1..Len(comb)}

\* The ends of every edge of comb are connected in the residual graph
StillConnected(comb) ==
    \A k \in 1..Len(comb) : comb[k][2] \in reachable(Residual(comb), {comb[k][1]})

\* The records kept so far, with the path id they are kept under
Records(bl) ==
    UNION {{[path_id |-> pid, k |-> k, rec |-> bl[pid][k]] : k \in 1..Len(bl[pid])}
              : pid \in DOMAIN bl}

\* C14: a combination goes on to the synthesis of its paths exactly when, in
\* the graph with all its edges removed, the two ends of each of its edges
\* are still connected; no record is kept, nor dumped, for a combination that
\* leaves the ends of one of its edges apart.
C14_KeptIffConnected ==
    /\ comb_out.tried => (comb_out.flag <=> StillConnected(comb_out.comb))
    /\ \A r \in Records(block_list) : StillConnected(r.rec.comb)
    /\ output.written => \A r \in Records(output.block_list) : StillConnected(r.rec.comb)

\* The file is written: nothing under the path whose edges are all bridges,
\* records under another path
C14_Witness ==
    /\ output.written
    /\ 2 \in DOMAIN output.block_list
    /\ output.block_list[2] = <<>>
    /\ \E pid \in DOMAIN output.block_list : output.block_list[pid] # <<>>

\* C15: for a combination that has passed the connectivity check, every
\* shortest-path query of the reduced path (last kept viewpoint -> viewpoint)
\* and of the detailed path (the ends of a blocked edge) is made between
\* viewpoints the residual graph connects: no query raises NetworkXNoPath.
C15_NoQueryBetweenDisconnected ==
    (comb_out.tried /\ comb_out.flag)
    => /\ ~comb_out.raised
       /\ \A q \in comb_out.queries : q[2] \in reachable(comb_out.G, {q[1]})

\* Two edges blocked, a query made for each of them and the record kept
C15_Witness ==
    /\ comb_out.tried /\ comb_out.flag /\ comb_out.kept
    /\ Len(comb_out.comb) = 2
    /\ Cardinality(comb_out.queries) >= 2
    /\ \E q \in comb_out.queries : {q[1], q[2]} \in scan_edges \ comb_out.G

\* The path in which every edge of comb is replaced by the route the
\* residual graph G has between its ends, from the i-th viewpoint on
RECURSIVE C16_Expand(_, _, _, _)
C16_Expand(G, path, comb, i) ==
    IF i > Len(path) THEN <<>>
    ELSE IF i < Len(path) /\ InSeq(<<path[i], path[i + 1]>>, comb)
         THEN LET bypass == shortest_path(G, path[i], path[i + 1]).nodes
              IN  SubSeq(bypass, 1, Len(bypass) - 1) \o C16_Expand(G, path, comb, i + 1)
         ELSE <<path[i]>> \o C16_Expand(G, path, comb, i + 1)

\* C16: the detailed path of an accepted combination is the reference path
\* with, for each blocked edge, the two positions the edge occupies replaced
\* by the whole shortest route between its ends in the residual graph (the
\* later positions move by the length of the route less 2): it is a walk of
\* the residual graph from the first to the last viewpoint of the path, and
\* [1,2,3,4] with (2,3) blocked and the detour 2-17-3 gives [1,2,17,3,4].
C16_DetailedPath ==
    (comb_out.tried /\ comb_out.flag /\ ~comb_out.raised)
    => /\ comb_out.detailed_path = C16_Expand(comb_out.G, comb_out.path, comb_out.comb, 1)
       /\ \A k \in 1..(Len(comb_out.detailed_path) - 1) :
             {comb_out.detailed_path[k], comb_out.detailed_path[k + 1]} \in comb_out.G
       /\ \A k \in 1..Len(comb_out.comb) :
             LET e == comb_out.comb[k]
                 at == CHOOSE p \in 1..Len(comb_out.detailed_path) :
                           comb_out.detailed_path[p] = e[1]
                 n == hops(comb_out.G, e[1], e[2])
             IN  comb_out.detailed_path[at + n] = e[2]
       /\ (comb_out.path = <<1, 2, 3, 4>> /\ comb_out.comb = << <<2, 3>> >>)
          => comb_out.detailed_path = <<1, 2, 17, 3, 4>>
       /\ comb_out.kept
          => Last(block_list[x.path_id]).detailed_path = comb_out.detailed_path

\* Two edges replaced, the second at a shifted position
C16_Witness ==
    /\ comb_out.tried /\ comb_out.kept
    /\ comb_out.comb = << <<2, 3>>, <<9, 10>> >>
    /\ comb_out.detailed_path = <<1, 2, 17, 3>> \o [k \in 1..6 |-> k + 3] \o <<11, 10>>
                                 \o [k \in 1..6 |-> k + 10]

\* C17: for the path [1,2,3,4] with the edge (2,3) blocked and the detour
\* 2-17-3 the reduced path is [1,2,17,3,4] or, with 17 already in the
\* candidate frontier, [1,2,3,4]; in general every waypoint of the reference
\* path reaches the reduced path, kept directly or as the end of an inserted
\* bypass.
C17_BypassInsertedInReducedPath ==
    (comb_out.tried /\ comb_out.flag /\ ~comb_out.raised)
    => /\ (comb_out.path = <<1, 2, 3, 4>> /\ comb_out.comb = << <<2, 3>> >>)
          => comb_out.new_path \in {<<1, 2, 17, 3, 4>>, <<1, 2, 3, 4>>}
       /\ \A k \in 1..Len(comb_out.path) : InSeq(comb_out.path[k], comb_out.new_path)

\* What lines 95-118 build for that combination: the waypoint outside the
\* frontier is left out and nothing of the bypass is put in
C17_ReducedPathOfTheCode ==
    (comb_out.tried /\ comb_out.flag /\ ~comb_out.raised
     /\ comb_out.path = <<1, 2, 3, 4>> /\ comb_out.comb = << <<2, 3>> >>)
    => /\ comb_out.new_path = <<1, 2, 4>>
       /\ comb_out.original_path = <<1, 2, 3, 4>>

C17_Reached ==
    /\ comb_out.tried /\ comb_out.flag
    /\ comb_out.path = <<1, 2, 3, 4>> /\ comb_out.comb = << <<2, 3>> >>

\* The number of records held in bl
RecordCount(bl) == Cardinality(Records(bl))

\* C18: a combination that passes the connectivity test adds one record,
\* carrying its reduced path, if and only if that path has at most 15 nodes;
\* no record of the mapping, kept or written, has a reduced path of 16 nodes
\* or more.
C18_RecordIffWithinCap ==
    /\ [](\A rec \in Records(block_list) : Len(rec.rec.new_path) <= 15)
    /\ [](output.written
            => \A rec \in Records(output.block_list) : Len(rec.rec.new_path) <= 15)
    /\ [][(syn_pc = "comb" /\ combs # <<>> /\ comb_out'.tried /\ comb_out'.flag
            /\ ~comb_out'.raised)
          => IF Len(comb_out'.new_path) <= 15
             THEN /\ x.path_id \in DOMAIN block_list'
                  /\ Last(block_list'[x.path_id]).new_path = comb_out'.new_path
                  /\ Last(block_list'[x.path_id]).comb = Head(combs)
                  /\ RecordCount(block_list') = RecordCount(block_list) + 1
             ELSE block_list' = block_list]_vars

\* A reduced path of exactly 15 nodes is recorded
C18_Witness ==
    /\ comb_out.tried /\ comb_out.flag /\ comb_out.kept
    /\ Len(comb_out.new_path) = 15
    /\ Last(block_list[x.path_id]).new_path = comb_out.new_path

\* A reduced path of 16 nodes is dropped
C18_WitnessDropped ==
    /\ comb_out.tried /\ comb_out.flag /\ ~comb_out.kept
    /\ Len(comb_out.new_path) = 16

\* The step of Combination that drops a combination for its reduced path
DroppedForLength ==
    /\ syn_pc = "comb" /\ combs # <<>>
    /\ comb_out'.tried /\ comb_out'.flag /\ ~comb_out'.raised
    /\ Len(comb_out'.new_path) > max_new_path

\* C19: a combination dropped because its reduced path has more than 15
\* nodes is counted by a diagnostic (a counter or a list of lengths grows),
\* and dropping it is not an error: the run goes on with the next
\* combination.
C19_DiscardIsCounted ==
    [][DroppedForLength
       => /\ syn_pc' = "comb"
          /\ \/ \E c \in DOMAIN counters : counters'[c] > counters[c]
             \/ Len(lengths'.original) > Len(lengths.original)
             \/ Len(lengths'.modified) > Len(lengths.modified)]_vars

\* What lines 127-137 do with such a combination: nothing is recorded and
\* nothing is counted, and the run goes on
C19_DiscardLeavesNoTrace ==
    [][DroppedForLength
       => /\ syn_pc' = "comb" /\ combs' = Tail(combs)
          /\ UNCHANGED <<counters, lengths, block_list>>]_vars

\* C20: when the path id of the next item has been met before, in this split
\* or in an earlier one, the run ends there: the item is not processed, no
\* step follows, and the output file is never written.  The ids processed so
\* far are therefore all different.
C20_DuplicateIdAborts ==
    /\ [][(syn_pc = "path" /\ x_idx <= Len(data[split]) /\ InSeq(x.path_id, paths))
          => /\ syn_pc' = "exited"
             /\ UNCHANGED <<paths, combs, block_list, counters, lengths, output>>]_vars
    /\ [][syn_pc # "exited"]_vars
    /\ [](syn_pc = "exited" => ~output.written)
    /\ [](\A j, k \in 1..Len(paths) : paths[j] = paths[k] => j = k)

\* The id comes back in a later split, after records were made for it
C20_Witness ==
    /\ syn_pc = "exited"
    /\ split > 1
    /\ x.path_id \in DOMAIN block_list
    /\ block_list[x.path_id] # <<>>
    /\ ~output.written

\* The id comes back in the same split
C20_WitnessSameSplit ==
    /\ syn_pc = "exited"
    /\ x_idx = 2
    /\ data[split][1].path_id = x.path_id

\* The records a run on the graph G0, the reference path and the
\* combinations cs (from the k-th on) makes, as a function of these alone
RECURSIVE C21_Records(_, _, _, _)
C21_Records(G0, path, cs, k) ==
    IF k > Len(cs) THEN <<>>
    ELSE LET out == combination(G0, path, cs[k])
         IN  (IF out.kept
              THEN <<[comb |-> out.comb, new_path |-> out.new_path,
                      original_path |-> out.original_path,
                      detailed_path |-> out.detailed_path]>>
              ELSE <<>>) \o C21_Records(G0, path, cs, k + 1)

C21_Synthesis(path, k) == C21_Records(scan_edges, path, combinations(path_edges(path), k), 1)

-----------------------------------------------------------------------------
(* Properties of load_nav_graphs (SpecLoad) *)

\* a and b are included and each lists the other as unobstructed
Mutual(a, b) ==
    /\ conn_data[a].included /\ conn_data[b].included
    /\ conn_data[a].unobstructed[b] /\ conn_data[b].unobstructed[a]

\* a and b are included, a lists b and b does not list a
OneWay(a, b) ==
    /\ conn_data[a].included /\ conn_data[b].included
    /\ conn_data[a].unobstructed[b] /\ ~conn_data[b].unobstructed[a]

\* C22: when load_nav_graphs has returned, the graph has the edge {a,b}
\* exactly when a and b are both included and list each other as
\* unobstructed; with two included records of which one lists the other and
\* is not listed back, the load never returns: the file is not read to its
\* end and the load stops on the assertion at the first record that lists
\* one that does not list it back.
C22_EdgesSymmetricOrAbort ==
    /\ ld_pc = "done"
       => \A a, b \in conn_ids : ({a, b} \in ld_G <=> Mutual(a, b))
    /\ (\E a, b \in conn_ids : OneWay(a, b))
       => /\ ld_pc \in {"load", "raised"}
          /\ ld_i \in conn_ids
          /\ ld_pc = "load" => \A a \in 1..(ld_i - 1), b \in conn_ids : ~OneWay(a, b)
    /\ ld_pc = "raised" => \E b \in conn_ids : OneWay(ld_i, b)

\* A graph returned with an edge, from a file with a record left out
C22_Witness ==
    /\ ld_pc = "done"
    /\ ld_G # {}
    /\ \E a \in conn_ids : ~conn_data[a].included

\* The load stopped on a flag of a later record that an earlier one does not
\* return
C22_WitnessAbort ==
    /\ ld_pc = "raised"
    /\ ld_i = 2
    /\ OneWay(2, 1)
    /\ ld_G # {}

\* The distinct entries of s, in the order of their first occurrence
RECURSIVE C29_FirstOccurrences(_, _)
C29_FirstOccurrences(s, k) ==
    IF k > Len(s) THEN <<>>
    ELSE IF \E j \in 1..(k - 1) : s[j] = s[k] THEN C29_FirstOccurrences(s, k + 1)
    ELSE <<s[k]>> \o C29_FirstOccurrences(s, k + 1)

\* C29: the original path of every combination that has passed the
\* connectivity test, and of every record kept, holds each distinct viewpoint
\* of the reference path exactly once, in the order of first occurrence, also
\* when the reference path comes back to a viewpoint.
C29_OriginalPathWithoutDuplicates ==
    (comb_out.tried /\ comb_out.flag /\ ~comb_out.raised)
    => /\ comb_out.original_path = C29_FirstOccurrences(comb_out.path, 1)
       /\ comb_out.kept
          => Last(block_list[x.path_id]).original_path
                = C29_FirstOccurrences(comb_out.path, 1)

\* What lines 95-104 build: a viewpoint is passed over only when the reduced
\* path holds it, so the original path is the reference path itself when no
\* viewpoint is repeated, and a repeated viewpoint that the reduced path has
\* not taken yet is listed again
C29_OriginalPathOfTheCode ==
    (comb_out.tried /\ comb_out.flag /\ ~comb_out.raised)
    => /\ ~has_duplicates(comb_out.path) => comb_out.original_path = comb_out.path
       /\ (comb_out.path = <<1, 2, 3, 2, 3, 4>> /\ comb_out.comb = << <<2, 3>> >>)
          => /\ comb_out.original_path = <<1, 2, 3, 3, 4>>
             /\ comb_out.new_path = <<1, 2, 3, 4>>

C29_Reached ==
    /\ comb_out.tried /\ comb_out.kept
    /\ comb_out.path = <<1, 2, 3, 2, 3, 4>> /\ comb_out.comb = << <<2, 3>> >>

\* The edges of the combination comb
C30_Edges(comb) == {{comb[k][1], comb[k][2]} : k \in 1..Len(comb)}

\* C30: a combination is evaluated on the loaded graph less its own edges
\* and nothing else, and once it has been processed, kept or not, the working
\* graph has exactly the edges of the loaded graph again: so it is whenever
\* the next combination or the end of the path is at hand, and the backup is
\* never touched.
C30_GraphRestored ==
    /\ syn_pc = "comb" => graph_G = scan_edges /\ backup_G = scan_edges
    /\ (comb_out.tried /\ ~comb_out.raised)
       => /\ comb_out.G = scan_edges \ C30_Edges(comb_out.comb)
          /\ comb_out.G # scan_edges
          /\ graph_G = scan_edges

\* A combination discarded with its edges removed, and one kept, each with
\* the graph whole again before the next one
C30_Witness ==
    /\ syn_pc = "comb" /\ combs # <<>>
    /\ comb_out.tried /\ ~comb_out.raised /\ ~comb_out.flag
    /\ Cardinality(scan_edges \ comb_out.G) = args_nums
    /\ graph_G = scan_edges

C30_WitnessKept ==
    /\ syn_pc = "comb" /\ combs # <<>>
    /\ comb_out.tried /\ comb_out.kept
    /\ Cardinality(scan_edges \ comb_out.G) = 2
    /\ graph_G = scan_edges

\* C27: a lane that has ended stays ended, and no later step of the rollout
\* changes its map (edges, visited viewpoints, step ids, stop scores) or its
\* trajectory, whatever the other lanes do.
C27_EndedLaneFrozen ==
    [][\A i \in Lanes :
          ended[i] => /\ ended'[i]
                      /\ gmaps'[i] = gmaps[i]
                      /\ traj'[i] = traj[i]]_vars

\* The first lane has ended and the second is in a later iteration, its map
\* written to since
C27_Witness ==
    /\ batch_size = 2
    /\ ended[1] /\ ~ended[2]
    /\ base_t = 2
    /\ pc = "act"
    /\ gmaps[2].node_step_ids[obs[2]] = 3
    /\ obs[2] \notin DOMAIN gmaps[1].node_step_ids

\* C28: a search is made for the lane whose turn it is and is run to its end
\* before anything else: while it runs, the turn stays with that lane and no
\* step of the outer rollout is taken (no new observation, no ended flag
\* set, no iteration counted); it leaves the map, the trajectory, the
\* simulator, the step counter and the flags of every other lane as they
\* were, and when it ends the turn passes to the next lane.
C28_SearchInsideItsLane ==
    [][/\ (pc = "act" /\ pc' = "search")
          => /\ srch'.idx = lane /\ lane' = lane
             /\ gmaps' = gmaps /\ traj' = traj /\ sims' = sims /\ steps' = steps
       /\ pc = "search"
          => /\ srch.idx = lane
             /\ pc' \in {"search", "raised", next_lane}
             /\ pc' = "search" => lane' = lane /\ srch'.idx = srch.idx
             /\ obs' = obs /\ ended' = ended /\ base_t' = base_t
             /\ \A k \in Lanes \ {srch.idx} :
                   /\ gmaps'[k] = gmaps[k]
                   /\ traj'[k] = traj[k]
                   /\ sims'[k] = sims[k]
                   /\ steps'[k] = steps[k]
                   /\ just_ended'[k] = just_ended[k]
                   /\ nav'[k] = nav[k]]_vars

\* A search of the second lane under way, one iteration made, next to a
\* first lane that has its own map
C28_Witness ==
    /\ batch_size = 2
    /\ pc = "search" /\ srch.idx = 2
    /\ srch.step > srch.start_step
    /\ gmaps[1].visited # {}
    /\ gmaps[2].visited # gmaps[1].visited

\* A search of the first lane over: its counter is ahead of the other lane's
C28_WitnessOver ==
    /\ batch_size = 2
    /\ pc \in {"act", "stop"}
    /\ srch = NoSearch
    /\ steps[1] > steps[2]

\* s is t with some of its entries left out, from the i-th of s and the j-th
\* of t on
RECURSIVE C31_Subsequence(_, _, _, _)
C31_Subsequence(s, t, i, j) ==
    IF i > Len(s) THEN TRUE
    ELSE IF j > Len(t) THEN FALSE
    ELSE IF s[i] = t[j] THEN C31_Subsequence(s, t, i + 1, j + 1)
    ELSE C31_Subsequence(s, t, i, j + 1)

\* C31: the reduced path of every combination that has passed the
\* connectivity test starts with the first waypoint of the reference path,
\* holds no viewpoint twice and is a subsequence of the reference path; the
\* counter of reduced paths with a repeated viewpoint is 0 throughout, and
\* so are the reduced paths of the records written.
C31_ReducedPathWellFormed ==
    /\ (comb_out.tried /\ comb_out.flag /\ ~comb_out.raised)
       => /\ comb_out.new_path # <<>>
          /\ comb_out.new_path[1] = comb_out.path[1]
          /\ ~has_duplicates(comb_out.new_path)
          /\ C31_Subsequence(comb_out.new_path, comb_out.path, 1, 1)
    /\ counters.duplicate_num = 0
    /\ \A rec \in Records(block_list) : ~has_duplicates(rec.rec.new_path)

\* The reference path that comes back to two viewpoints, reduced to a path
\* that holds them once
C31_Witness ==
    /\ comb_out.tried /\ comb_out.kept
    /\ comb_out.path = <<1, 2, 3, 2, 3, 4>>
    /\ comb_out.new_path = <<1, 2, 3, 4>>
    /\ counters.duplicate_num = 0

\* A run written out with the record of that path, the counter at 0
C31_WitnessWritten ==
    /\ output.written
    /\ \E rec \in Records(output.block_list) : rec.path_id = 4
    /\ counters.duplicate_num = 0

\* C32: for a reference path that repeats no viewpoint, the detailed path of
\* every combination that has passed the connectivity test starts at the
\* first viewpoint of the reference path, ends at its last, and goes from
\* each of its viewpoints to the next over an edge of the graph less the
\* blocked edges: it walks no blocked edge.  So does the detailed path of the
\* record kept.
C32_DetailedPathIsResidualWalk ==
    (comb_out.tried /\ comb_out.flag /\ ~comb_out.raised /\ ~has_duplicates(comb_out.path))
    => LET dp == comb_out.detailed_path
       IN  /\ dp # <<>>
           /\ dp[1] = comb_out.path[1]
           /\ Last(dp) = Last(comb_out.path)
           /\ \A k \in 1..(Len(dp) - 1) :
                 /\ {dp[k], dp[k + 1]} \in scan_edges \ C30_Edges(comb_out.comb)
                 /\ {dp[k], dp[k + 1]} \notin C30_Edges(comb_out.comb)
           /\ comb_out.kept => Last(block_list[x.path_id]).detailed_path = dp

\* Two blocked edges of the long path, each walked around, the second behind
\* the longer detour of the first
C32_Witness ==
    /\ comb_out.tried /\ comb_out.flag /\ ~comb_out.raised
    /\ ~has_duplicates(comb_out.path)
    /\ Len(comb_out.comb) = 2
    /\ Len(comb_out.detailed_path) > Len(comb_out.path)
    /\ InSeq(17, comb_out.detailed_path)
    /\ comb_out.comb[2] # <<2, 3>>

\* The stop viewpoint of lane i is determined in the step at hand
C33_Determined(i) == pc = "stop" /\ ~ended[i] /\ just_ended[i]

\* What C33 asks of lane i in every state
C33_Marked(i) ==
    /\ (pc = "decide" /\ just_ended[i]) => ended[i]
    /\ (pc \in {"stop", "observe"} /\ just_ended[i] /\ ~ended[i]) => nav[i].cpu_a_t = None
    /\ (pc \in {"stop", "observe"} /\ nav[i].cpu_a_t = None) => just_ended[i]
    /\ pc = "done" => ended[i] /\ just_ended[i]

\* What C33 asks of lane i in every step
C33_Step(i) ==
    /\ (pc = "stop" /\ traj'[i] # traj[i]) => C33_Determined(i)
    /\ C33_Determined(i)
       => /\ pc' = "observe"
          /\ traj'[i] = determine_stop(gmaps[i], obs[i], traj[i])
          /\ ~ended'[i] /\ just_ended'[i] /\ nav'[i].cpu_a_t = None
    /\ (pc = "observe" /\ ended'[i] /\ ~ended[i]) => just_ended[i]
    /\ (pc = "observe" /\ just_ended[i]) => ended'[i]
    /\ ended[i] => ~(C33_Determined(i))'
    /\ (just_ended[i] /\ pc # "stop") => traj'[i] = traj[i]

\* C33: the stop viewpoint of a lane is determined once, in the iteration in
\* which the lane ends.  A lane is marked just ended only from the
\* preparation of its action to the end of the same iteration, and then its
\* action is null, so the iteration ends it; a lane that an iteration ends
\* was marked just ended before the stop viewpoints of that iteration were
\* determined, also when a search that used up the steps marked it; a lane
\* that has ended is not determined again, and no other step than the
\* determination of a lane's stop viewpoint appends a stop path to its
\* trajectory; when the rollout is over every lane has been through it.
C33_StopDeterminedOnce ==
    /\ [](\A i \in Lanes : C33_Marked(i))
    /\ [][\A i \in Lanes : C33_Step(i)]_vars

\* The same of the rollouts whose policy index is the teacher's or the
\* greedy one, where index 0 and the stop flag go together
C33_OnceUnlessStopSampled ==
    /\ [](cfg.feedback \in {"teacher", "argmax"} => \A i \in Lanes : C33_Marked(i))
    /\ [][cfg.feedback \in {"teacher", "argmax"} => \A i \in Lanes : C33_Step(i)]_vars

\* A lane whose sampled index is 0 away from the end of its path: its action
\* is null, it is not marked just ended, and the iteration ends it
C33_EndedUndetermined ==
    \E i \in Lanes :
        /\ pc = "observe"
        /\ cfg.feedback = "sample"
        /\ ~ended[i] /\ ~just_ended[i]
        /\ nav[i].a_t = 0 /\ nav[i].cpu_a_t = None
        /\ obs[i] # Last(eps[i].gt_path)

\* The first lane has ended, its stop path appended, and the second lane goes
\* through a later iteration
C33_Witness ==
    /\ batch_size = 2
    /\ pc = "observe"
    /\ ended[1] /\ just_ended[1]
    /\ ~ended[2]
    /\ Len(traj[1]) > base_t

\* A search has used up the steps of its lane: the lane is marked just ended
\* and its stop viewpoint has been determined in the same iteration
C33_WitnessSearch ==
    \E i \in Lanes :
        /\ batch_size = 2
        /\ pc = "observe"
        /\ cfg.search_target
        /\ ~ended[i] /\ just_ended[i]
        /\ steps[i] = max_action_len - 1
        /\ steps[i] > base_t

\* The decisions the iteration of search_rollout at hand can come to, one for
\* every index the policy can draw
C34_SearchDecisions ==
    LET i == srch.idx
        ob == get_ob(eps[i], srch.ob)
        g1 == IF srch.step # srch.start_step
              THEN [gmaps[i] EXCEPT !.node_step_ids = dict_set(@, ob.viewpoint, srch.step + 1)]
              ELSE gmaps[i]
        inp == nav_gmap_variable(ob, g1, cfg.act_visited_nodes, cfg.enc_full_graph)
    IN  {search_decide([g1 EXCEPT !.node_stop_scores = set_stop_score(@, ob.viewpoint, score)],
                       ob, choice) :
            choice \in a_t_choices(inp, TRUE), score \in StopScores}

\* The decision d takes its viewpoint from a position of its own list
C34_ValidIndex(d) ==
    /\ d.a_t = ignoreid => d.cpu_a_t = None
    /\ d.cpu_a_t # None
       => /\ d.a_t \in 0..(Len(d.nav_vpids) - 1)
          /\ d.cpu_a_t = d.nav_vpids[d.a_t + 1]
    /\ d.raised => d.nav_targets.given /\ d.nav_targets.res.raised

\* C34: in rollout and in search_rollout the ignore marker is never an index
\* into the candidate list: an index that is the marker leaves the lane's
\* action null, every viewpoint taken from the list is taken at a position
\* of the list, and no decision raises for its index (a decision raises only
\* where the teacher action has).
C34_IgnoreNeverIndexes ==
    /\ \A i \in Lanes :
          pc \in {"act", "stop", "observe", "raised"} => C34_ValidIndex(nav[i])
    /\ pc = "search" => \A d \in C34_SearchDecisions : C34_ValidIndex(d)

\* The teacher's index of the first lane, which has ended, is the marker and
\* the lane's action is null; the other lane goes on
C34_Witness ==
    /\ batch_size = 2
    /\ pc = "act"
    /\ ended[1] /\ ~ended[2]
    /\ nav[1].a_t = ignoreid
    /\ nav[1].cpu_a_t = None
    /\ nav[2].a_t # ignoreid

\* A search under way in which the teacher action reports the marker and
\* the lane is stopped, whatever index the policy draws
C34_WitnessSearch ==
    /\ pc = "search"
    /\ \E d \in C34_SearchDecisions : d.nav_targets = Targets(Ret(ignoreid))
    /\ \A d \in C34_SearchDecisions : d.cpu_a_t = None

\* A search under way that takes the viewpoint at a position of the list
\* other than 0
C34_WitnessSearchMoves ==
    /\ pc = "search"
    /\ \E d \in C34_SearchDecisions : d.a_t > 0 /\ d.cpu_a_t # None

\* The viewpoint with the highest stop score recorded in the map g, the one
\* recorded first among several
C35_BestScored(g) ==
    LET scores == g.node_stop_scores
        k == CHOOSE n \in 1..Len(scores) :
                 /\ \A j \in 1..Len(scores) : scores[j].stop <= scores[n].stop
                 /\ \A j \in 1..(n - 1) : scores[j].stop < scores[n].stop
    IN  scores[k].vp

\* The trajectory of lane i with the path of the known map from the
\* viewpoint from to the best-scored viewpoint appended, or as it is when
\* from is that viewpoint
C35_WithStopPath(i, from) ==
    IF C35_BestScored(gmaps[i]) # from
    THEN Append(traj[i], graph_path(gmaps[i], from, C35_BestScored(gmaps[i])))
    ELSE traj[i]

\* C35: with the seen-stop option off, in the iteration that ends a lane (the
\* lane has not ended and its action is null when the stop viewpoints are
\* determined) the stop node is the viewpoint with the highest stop score
\* recorded in the lane's map, the earliest recorded on ties, and the path of
\* the known map from the viewpoint the agent stands on to it is appended to
\* the trajectory, nothing when the agent stands on it.
C35_StopNodeIsBestScored ==
    [][\A i \in Lanes :
          (pc = "stop" /\ ~ended[i] /\ nav[i].cpu_a_t = None)
          => /\ gmaps[i].node_stop_scores # <<>>
             /\ traj'[i] = C35_WithStopPath(i, sims[i].viewpoint)]_vars

\* What lines 1005-1014 do: for a lane marked just ended the path is taken
\* from the viewpoint of the observation made before the action, which is
\* not where a search has left the agent; a lane that is not marked is left
\* alone, also when its action is null
C35_StopPathOfTheCode ==
    [][\A i \in Lanes :
          /\ (pc = "stop" /\ ~ended[i] /\ just_ended[i])
             => /\ gmaps[i].node_stop_scores # <<>>
                /\ traj'[i] = C35_WithStopPath(i, obs[i])
          /\ (pc = "stop" /\ ~(~ended[i] /\ just_ended[i])) => traj'[i] = traj[i]]_vars

\* A search has used up the steps and left the agent away from the viewpoint
\* of the last observation, which is the best-scored one: the agent stands
\* elsewhere and nothing is appended
C35_StaleViewpoint ==
    \E i \in Lanes :
        /\ pc = "observe"
        /\ ~ended[i] /\ just_ended[i]
        /\ sims[i].viewpoint # obs[i]
        /\ C35_BestScored(gmaps[i]) = obs[i]

\* A lane ended by the step budget away from its best-scored viewpoint, two
\* viewpoints sharing the highest score: the path to the first of them has
\* been appended
C35_Reached ==
    \E i \in Lanes :
        /\ pc = "observe"
        /\ ~ended[i] /\ just_ended[i]
        /\ sims[i].viewpoint = obs[i]
        /\ C35_BestScored(gmaps[i]) # obs[i]
        /\ Last(Last(traj[i])) = C35_BestScored(gmaps[i])
        /\ \E j, k \in 1..Len(gmaps[i].node_stop_scores) :
              /\ j < k
              /\ gmaps[i].node_stop_scores[j].stop = 2
              /\ gmaps[i].node_stop_scores[k].stop = 2

=============================================================================
